---- MODULE Spec2Model ----
(***************************************************************************)
(* EyeAssist: gaze-and-blink controlled input.                             *)
(*                                                                         *)
(* The module models the two runtime entry points of the repository as     *)
(* frame-synchronous state machines:                                       *)
(*   - program "app":     EyeTrackingApp.run of main.py with the           *)
(*                        GUIController of gui_controller.py (the command  *)
(*                        engine: dwell/blink bookkeeping, screens,        *)
(*                        angle and velocity channels);                    *)
(*   - program "tracker": EyeTrackingSystem.run of main_tracker.py with    *)
(*                        the MemoryShare flag store of memory_sharing.py. *)
(* One step of the model is one iteration of the program's frame loop.     *)
(*                                                                         *)
(* Numbers.  Ratios and calibration thresholds are integers in tenths      *)
(* (12 is 1.2).  A filtered ratio is the exact fraction <<sum, count>>.    *)
(* Angles are integers in units of 1/300 degree, so that 0.05 is 15 and    *)
(* velocity/300 is the velocity itself.                                    *)
(***************************************************************************)
EXTENDS Integers, Sequences, FiniteSets, TLC

VARIABLES
    program,    \* which entry point runs: "app" or "tracker"
    app,        \* the fields of EyeTrackingApp (main.py)
    gui,        \* GUIController.state (gui_controller.py)
    loc,        \* the local variables of EyeTrackingApp.run
    tracker,    \* the fields of EyeTrackingSystem (main_tracker.py)
    memory,     \* the content of the MemoryShare file (memory_sharing.py)
    camera,     \* the frame read by cap.read() in the latest iteration
    frames,     \* number of loop iterations executed so far
    operator,   \* what the person in front of the camera is doing
    hist,       \* history of the run, read only by the properties
    classifier, \* the two gaze classifiers applied to one input
    session,    \* a calibration session (calibration.py, face_tracker/calibration.py)
    disk,       \* the calibration file geo_calib.txt
    files,      \* the latest load or save of the calibration file
    calc,       \* a measurement function or filter applied to an input
    procs       \* the processes updating the MemoryShare store concurrently

vars == <<program, app, gui, loc, tracker, memory, camera, frames, operator, hist,
          classifier, session, disk, files, calc, procs>>

\* the state of the runtime programs, and the state of the other programs
runtime_vars == <<app, gui, loc, tracker, memory, camera, frames, operator, hist>>

offline_vars == <<classifier, session, disk, files, calc, procs>>

(***************************************************************************)
(* Bounds of the model                                                     *)
(***************************************************************************)
\* loop iterations explored with every camera input
MaxFrames == 5
\* loop iterations of the flag-store tracker explored with every camera input
MaxTrackerFrames == 3
\* complete double-blink gestures the operator performs in a row
MaxGestures == 4
\* frames for which the operator then keeps looking at the last target
MaxHold == 800
\* window of the two MovingAverage filters (AppConfig.filter_size, a
\* configuration field; its default is 9)
FilterSize == 2
\* gestures the operator performs in a row on the way to the velocity screen
\* and on it
MaxAdjustments == 12
\* loop iterations explored with open-eye, blink and no-face frames at two
\* targets
MaxBlinkFrames == 8
\* samples fed to the tracker's inline filter and to a MovingAverage
MaxInlineSamples == 11
\* calls of the flag store two processes make between them
MaxStoreCalls == 4

(***************************************************************************)
(* Program constants                                                       *)
(***************************************************************************)
\* AppConfig.blink_threshold_multiplier = 0.875, in thousandths
blink_threshold_multiplier == 875
\* the factor of the blink comparison, blink_ratio > 10000 * blink_threshold
BlinkFactor == 10000
\* blink_time after reset_state / reset_interaction_state
BlinkTimeReset == 100
\* 90 degrees in units of 1/300 degree
AngleLimit == 27000
\* 0.05 degrees in units of 1/300 degree
AngleBaseStep == 15
\* bounds and step of a velocity percentage
VelocityMax == 100
VelocityStep == 10
VelocityInit == 10
\* config.py: window of the tracker's inline filter
MOVING_AVERAGE_WINDOW == 9
\* config.py: MOUTH_THRESHOLD_MULTIPLIER = 0.8, in tenths
MOUTH_THRESHOLD_MULTIPLIER == 8

\* every reading of time.time() is one value later than the reset value
ClockReading == BlinkTimeReset + 1

(***************************************************************************)
(* Position flags: the dict {'center','right','left','top','bot'} of 0/1   *)
(***************************************************************************)
Flags(c, r, l, t, b) ==
    [center |-> c, right |-> r, left |-> l, top |-> t, bot |-> b]

ZeroFlags == Flags(0, 0, 0, 0, 0)

TopLeft == Flags(0, 0, 1, 1, 0)
TopCenter == Flags(1, 0, 0, 1, 0)
TopRight == Flags(0, 1, 0, 1, 0)
BotLeft == Flags(0, 0, 1, 0, 1)
BotCenter == Flags(1, 0, 0, 0, 1)
BotRight == Flags(0, 1, 0, 0, 1)

Positions == {TopLeft, TopCenter, TopRight, BotLeft, BotCenter, BotRight}

(***************************************************************************)
(* Exact fractions <<num, den>>, den > 0, compared with an integer         *)
(***************************************************************************)
FracGt(q, t) == q[1] > t * q[2]

FracLt(q, t) == q[1] < t * q[2]

\* a float holding an exact fraction, in lowest terms
RECURSIVE GCD(_, _)
GCD(a, b) == IF b = 0 THEN a ELSE GCD(b, a % b)

Norm(q) ==
    LET g == GCD(IF q[1] < 0 THEN -q[1] ELSE q[1], q[2])
    IN IF g = 0 THEN <<0, 1>> ELSE <<q[1] \div g, q[2] \div g>>

Zero == <<0, 1>>

FracAdd(a, b) == Norm(<<a[1] * b[2] + b[1] * a[2], a[2] * b[2]>>)

\* a / k for an integer k > 0
FracDiv(a, k) == Norm(<<a[1], a[2] * k>>)

RECURSIVE SeqSum(_)
SeqSum(s) == IF s = <<>> THEN 0 ELSE Head(s) + SeqSum(Tail(s))

Min(a, b) == IF a < b THEN a ELSE b

(***************************************************************************)
(* utils/utils.py: MovingAverage                                           *)
(***************************************************************************)
MovingAverage(window_size) ==
    [values |-> [i \in 1..window_size |-> 0], index |-> 0, count |-> 0]

\* an update that, once the buffer is full, always overwrites the first slot
MovingAverage_update_first_slot(f, new_value) ==
    IF f.count < Len(f.values)
    THEN LET vs == [f.values EXCEPT ![f.count + 1] = new_value]
             n == f.count + 1
         IN [filter |-> [f EXCEPT !.values = vs, !.count = n],
             out |-> <<SeqSum(SubSeq(vs, 1, n)), n>>]
    ELSE LET vs == [f.values EXCEPT ![1] = new_value]
         IN [filter |-> [f EXCEPT !.values = vs],
             out |-> <<SeqSum(vs), Len(f.values)>>]

\* update: the new filter state and the returned mean
MovingAverage_update(f, new_value) ==
    IF f.count < Len(f.values)
    THEN LET vs == [f.values EXCEPT ![f.count + 1] = new_value]
             n == f.count + 1
         IN [filter |-> [f EXCEPT !.values = vs, !.count = n],
             out |-> <<SeqSum(SubSeq(vs, 1, n)), n>>]
    ELSE LET vs == [f.values EXCEPT ![f.index + 1] = new_value]
         IN [filter |-> [f EXCEPT !.values = vs,
                                  !.index = (f.index + 1) % Len(f.values)],
             out |-> <<SeqSum(vs), Len(f.values)>>]

(***************************************************************************)
(* Camera input of one frame: whether the detector found a face and, for   *)
(* the first face, the raw ratios of eye_detection.py                      *)
(***************************************************************************)
BlinkRatios == {30, 50000}
TbRatios == {5, 15}
SideRatios == {5, 10, 15}
MouthRatios == {2, 9}

NoFace ==
    [face |-> FALSE, blink_ratio |-> 0, tb_ratio |-> 0, side_gaze_ratio |-> 0,
     mouth_ratio |-> 0]

\* main.py does not measure the mouth at run time
FaceInputs ==
    [face : {TRUE}, blink_ratio : BlinkRatios, tb_ratio : TbRatios,
     side_gaze_ratio : SideRatios, mouth_ratio : {0}]

\* main_tracker.py does not measure the blink ratio
TrackerFaceInputs ==
    [face : {TRUE}, blink_ratio : {0}, tb_ratio : TbRatios,
     side_gaze_ratio : SideRatios, mouth_ratio : MouthRatios]

CameraInputs == {NoFace} \cup FaceInputs

(***************************************************************************)
(* Calibration profile read by FileManager.load_calibration_data: the      *)
(* profile a calibration run writes has the right corners below the left   *)
(* corners                                                                 *)
(***************************************************************************)
CalibProfile ==
    [lu |-> 12, ru |-> 8, ld |-> 12, rd |-> 8, tb |-> 10, mouth |-> 5]

(***************************************************************************)
(* main.py: EyeTrackingApp                                                 *)
(***************************************************************************)
NoAction == [type |-> "none", target |-> 0]

\* __init__ and reset_state
reset_state ==
    [calib_data |-> CalibProfile,
     blink_threshold |-> CalibProfile.mouth * blink_threshold_multiplier,
     side_gaze_filter |-> MovingAverage(FilterSize),
     tb_ratio_filter |-> MovingAverage(FilterSize),
     prev_flags |-> ZeroFlags,
     blink_flags |-> ZeroFlags,
     prev_blink_flags |-> ZeroFlags,
     blink_time |-> BlinkTimeReset,
     anti_millis_blink |-> 0,
     dbl_blink_gui |-> 0,
     stop_flag |-> 1,
     angle_change_flags |-> [dec |-> 0, inc |-> 0],
     current_angle |-> 1,
     angle_positions |-> <<0, 0, 0>>,
     angle_velocities |-> <<VelocityInit, VelocityInit, VelocityInit>>]

\* a process_frame that feeds the filters before it looks for a face
process_frame_filters_first(self, frame) ==
    LET side == MovingAverage_update(self.side_gaze_filter, frame.side_gaze_ratio)
        tb == MovingAverage_update(self.tb_ratio_filter, frame.tb_ratio)
        fed == [self EXCEPT !.side_gaze_filter = side.filter,
                            !.tb_ratio_filter = tb.filter]
    IN IF ~frame.face
       THEN [self |-> fed, face_detected |-> FALSE, gaze_data |-> <<>>]
       ELSE [self |-> fed,
             face_detected |-> TRUE,
             gaze_data |-> [blink_ratio |-> frame.blink_ratio,
                            tb_ratio |-> tb.out,
                            side_gaze_ratio |-> side.out]]

\* process_frame: no face returns before the filters are touched
process_frame(self, frame) ==
    IF ~frame.face
    THEN [self |-> self, face_detected |-> FALSE, gaze_data |-> <<>>]
    ELSE LET side == MovingAverage_update(self.side_gaze_filter, frame.side_gaze_ratio)
             tb == MovingAverage_update(self.tb_ratio_filter, frame.tb_ratio)
         IN [self |-> [self EXCEPT !.side_gaze_filter = side.filter,
                                   !.tb_ratio_filter = tb.filter],
             face_detected |-> TRUE,
             gaze_data |-> [blink_ratio |-> frame.blink_ratio,
                            tb_ratio |-> tb.out,
                            side_gaze_ratio |-> side.out]]

\* a determine_gaze_position that tests right and left independently
determine_gaze_position_two_ifs(self, gaze_data) ==
    LET tb_ratio == gaze_data.tb_ratio
        side_gaze_ratio == gaze_data.side_gaze_ratio
        top == FracGt(tb_ratio, self.calib_data.tb)
        right == FracLt(side_gaze_ratio,
                        IF top THEN self.calib_data.ru ELSE self.calib_data.rd)
        left == FracGt(side_gaze_ratio,
                       IF top THEN self.calib_data.lu ELSE self.calib_data.ld)
    IN Flags(IF ~right /\ ~left THEN 1 ELSE 0,
             IF right THEN 1 ELSE 0,
             IF left THEN 1 ELSE 0,
             IF top THEN 1 ELSE 0,
             IF top THEN 0 ELSE 1)

\* a determine_gaze_position that compares with <= and >=
determine_gaze_position_inclusive(self, gaze_data) ==
    LET tb_ratio == gaze_data.tb_ratio
        side_gaze_ratio == gaze_data.side_gaze_ratio
    IN IF FracGt(tb_ratio, self.calib_data.tb)
       THEN IF ~FracGt(side_gaze_ratio, self.calib_data.ru) THEN TopRight
            ELSE IF ~FracLt(side_gaze_ratio, self.calib_data.lu) THEN TopLeft
            ELSE TopCenter
       ELSE IF ~FracGt(side_gaze_ratio, self.calib_data.rd) THEN BotRight
            ELSE IF ~FracLt(side_gaze_ratio, self.calib_data.ld) THEN BotLeft
            ELSE BotCenter

\* a determine_gaze_position that takes the left thresholds for right and
\* the right thresholds for left
determine_gaze_position_swapped(self, gaze_data) ==
    LET tb_ratio == gaze_data.tb_ratio
        side_gaze_ratio == gaze_data.side_gaze_ratio
    IN IF FracGt(tb_ratio, self.calib_data.tb)
       THEN IF FracLt(side_gaze_ratio, self.calib_data.lu) THEN TopRight
            ELSE IF FracGt(side_gaze_ratio, self.calib_data.ru) THEN TopLeft
            ELSE TopCenter
       ELSE IF FracLt(side_gaze_ratio, self.calib_data.ld) THEN BotRight
            ELSE IF FracGt(side_gaze_ratio, self.calib_data.rd) THEN BotLeft
            ELSE BotCenter

determine_gaze_position(self, gaze_data) ==
    LET tb_ratio == gaze_data.tb_ratio
        side_gaze_ratio == gaze_data.side_gaze_ratio
    IN IF FracGt(tb_ratio, self.calib_data.tb)
       THEN IF FracLt(side_gaze_ratio, self.calib_data.ru) THEN TopRight
            ELSE IF FracGt(side_gaze_ratio, self.calib_data.lu) THEN TopLeft
            ELSE TopCenter
       ELSE IF FracLt(side_gaze_ratio, self.calib_data.rd) THEN BotRight
            ELSE IF FracGt(side_gaze_ratio, self.calib_data.ld) THEN BotLeft
            ELSE BotCenter

\* blink_ratio is in tenths and blink_threshold in thousandths of tenths
is_blinking_of(self, gaze_data) ==
    gaze_data.blink_ratio * 1000 > BlinkFactor * self.blink_threshold

\* handle_blinking with one line changed:
\*   "no_anti"        the double-blink test ignores anti_millis_blink
\*   "stale_memory"   a blink does not store its dwell in prev_blink_flags
\*   "current_dwell"  a blink takes the dwell from the blink frame itself
\*   "reset_on_move"  an open-eye frame at a new position clears the
\*                    double-blink flag and the previous-dwell memory
handle_blinking_changed(self, gaze_data, current_flags, change) ==
    IF is_blinking_of(self, gaze_data)
    THEN LET blink_flags == IF change = "current_dwell" THEN current_flags
                            ELSE self.prev_flags
             dbl == IF self.prev_blink_flags = blink_flags
                       /\ (self.anti_millis_blink = 0 \/ change = "no_anti")
                    THEN 1 ELSE 0
         IN [self |-> [self EXCEPT !.blink_time = ClockReading,
                                   !.blink_flags = blink_flags,
                                   !.dbl_blink_gui = dbl,
                                   !.prev_blink_flags =
                                       IF change = "stale_memory" THEN @
                                       ELSE blink_flags,
                                   !.anti_millis_blink = 1],
             is_blinking |-> TRUE]
    ELSE LET moved == change = "reset_on_move" /\ self.prev_flags # current_flags
         IN [self |-> [self EXCEPT !.anti_millis_blink = 0,
                                   !.prev_flags = current_flags,
                                   !.dbl_blink_gui = IF moved THEN 0 ELSE @,
                                   !.prev_blink_flags =
                                       IF moved THEN ZeroFlags ELSE @],
             is_blinking |-> FALSE]

handle_blinking_no_anti(self, gaze_data, current_flags) ==
    handle_blinking_changed(self, gaze_data, current_flags, "no_anti")

handle_blinking_stale_memory(self, gaze_data, current_flags) ==
    handle_blinking_changed(self, gaze_data, current_flags, "stale_memory")

handle_blinking_current_dwell(self, gaze_data, current_flags) ==
    handle_blinking_changed(self, gaze_data, current_flags, "current_dwell")

handle_blinking_reset_on_move(self, gaze_data, current_flags) ==
    handle_blinking_changed(self, gaze_data, current_flags, "reset_on_move")

handle_blinking(self, gaze_data, current_flags) ==
    IF is_blinking_of(self, gaze_data)
    THEN LET blink_flags == self.prev_flags
             dbl == IF self.prev_blink_flags = blink_flags
                       /\ self.anti_millis_blink = 0
                    THEN 1 ELSE 0
         IN [self |-> [self EXCEPT !.blink_time = ClockReading,
                                   !.blink_flags = blink_flags,
                                   !.dbl_blink_gui = dbl,
                                   !.prev_blink_flags = blink_flags,
                                   !.anti_millis_blink = 1],
             is_blinking |-> TRUE]
    ELSE [self |-> [self EXCEPT !.anti_millis_blink = 0,
                                !.prev_flags = current_flags],
          is_blinking |-> FALSE]

update_angle_positions(self) ==
    LET i == self.current_angle
        step == AngleBaseStep + self.angle_velocities[i]
    IN IF self.angle_change_flags.inc = 1
       THEN IF self.angle_positions[i] < AngleLimit
            THEN [self EXCEPT !.angle_positions[i] = @ + step]
            ELSE self
       ELSE IF self.angle_change_flags.dec = 1
       THEN IF self.angle_positions[i] > -AngleLimit
            THEN [self EXCEPT !.angle_positions[i] = @ - step]
            ELSE self
       ELSE self

\* a reset_interaction_state that leaves the double-blink flag set
reset_interaction_state_keeps_dbl(self) ==
    [self EXCEPT !.blink_time = BlinkTimeReset,
                 !.prev_blink_flags = ZeroFlags,
                 !.stop_flag = 0]

reset_interaction_state(self) ==
    [self EXCEPT !.blink_time = BlinkTimeReset,
                 !.prev_blink_flags = ZeroFlags,
                 !.dbl_blink_gui = 0,
                 !.stop_flag = 0]

\* a process_gui_action whose stop leaves angle_change_flags alone
process_gui_action_stop_keeps_flags(self, action) ==
    LET i == self.current_angle
    IN CASE action.type \in {"switch_gui", "stop"} -> reset_interaction_state(self)
         [] action.type = "switch_angle" ->
              reset_interaction_state(
                  [self EXCEPT !.current_angle = (self.current_angle % 3) + 1])
         [] action.type = "angle_inc" ->
              [self EXCEPT !.angle_change_flags = [dec |-> 0, inc |-> 1]]
         [] action.type = "angle_dec" ->
              [self EXCEPT !.angle_change_flags = [dec |-> 1, inc |-> 0]]
         [] action.type = "velocity_inc" ->
              reset_interaction_state(
                  IF self.angle_velocities[i] < VelocityMax
                  THEN [self EXCEPT !.angle_velocities[i] = @ + VelocityStep]
                  ELSE self)
         [] action.type = "velocity_dec" ->
              reset_interaction_state(
                  IF self.angle_velocities[i] > 0
                  THEN [self EXCEPT !.angle_velocities[i] = @ - VelocityStep]
                  ELSE self)
         [] OTHER -> self

\* a process_gui_action whose velocity_inc has no upper limit
process_gui_action_unclamped(self, action) ==
    LET i == self.current_angle
    IN CASE action.type = "switch_gui" -> reset_interaction_state(self)
         [] action.type = "switch_angle" ->
              reset_interaction_state(
                  [self EXCEPT !.current_angle = (self.current_angle % 3) + 1])
         [] action.type = "angle_inc" ->
              [self EXCEPT !.angle_change_flags = [dec |-> 0, inc |-> 1]]
         [] action.type = "angle_dec" ->
              [self EXCEPT !.angle_change_flags = [dec |-> 1, inc |-> 0]]
         [] action.type = "velocity_inc" ->
              reset_interaction_state(
                  [self EXCEPT !.angle_velocities[i] = @ + VelocityStep])
         [] action.type = "velocity_dec" ->
              reset_interaction_state(
                  IF self.angle_velocities[i] > 0
                  THEN [self EXCEPT !.angle_velocities[i] = @ - VelocityStep]
                  ELSE self)
         [] action.type = "stop" ->
              reset_interaction_state(
                  [self EXCEPT !.stop_flag = 1,
                               !.angle_change_flags = [dec |-> 0, inc |-> 0]])
         [] OTHER -> self

process_gui_action(self, action) ==
    LET i == self.current_angle
    IN CASE action.type = "switch_gui" -> reset_interaction_state(self)
         [] action.type = "switch_angle" ->
              reset_interaction_state(
                  [self EXCEPT !.current_angle = (self.current_angle % 3) + 1])
         [] action.type = "angle_inc" ->
              [self EXCEPT !.angle_change_flags = [dec |-> 0, inc |-> 1]]
         [] action.type = "angle_dec" ->
              [self EXCEPT !.angle_change_flags = [dec |-> 1, inc |-> 0]]
         [] action.type = "velocity_inc" ->
              reset_interaction_state(
                  IF self.angle_velocities[i] < VelocityMax
                  THEN [self EXCEPT !.angle_velocities[i] = @ + VelocityStep]
                  ELSE self)
         [] action.type = "velocity_dec" ->
              reset_interaction_state(
                  IF self.angle_velocities[i] > 0
                  THEN [self EXCEPT !.angle_velocities[i] = @ - VelocityStep]
                  ELSE self)
         [] action.type = "stop" ->
              reset_interaction_state(
                  [self EXCEPT !.stop_flag = 1,
                               !.angle_change_flags = [dec |-> 0, inc |-> 0]])
         [] OTHER -> self

(***************************************************************************)
(* gui_controller.py: GUIController                                        *)
(***************************************************************************)
GUIState == [current_gui |-> 1]

Action(type) == [type |-> type, target |-> 0]

SwitchGui(target) == [type |-> "switch_gui", target |-> target]

\* a handle_gui1_interactions whose bottom + left opens screen 3
handle_gui1_interactions_opens_gui3(state, blink_flags, current_angle) ==
    IF blink_flags.bot = 1 /\ blink_flags.left = 1
    THEN [state |-> [state EXCEPT !.current_gui = 3], action |-> SwitchGui(3)]
    ELSE IF blink_flags.bot = 1 /\ blink_flags.center = 1
    THEN [state |-> state, action |-> Action("switch_angle")]
    ELSE IF blink_flags.top = 1 /\ blink_flags.left = 1
    THEN [state |-> state, action |-> Action("angle_inc")]
    ELSE IF blink_flags.top = 1 /\ blink_flags.right = 1
    THEN [state |-> state, action |-> Action("angle_dec")]
    ELSE IF blink_flags.bot = 1 /\ blink_flags.right = 1
    THEN [state |-> state, action |-> Action("stop")]
    ELSE [state |-> state, action |-> NoAction]

handle_gui1_interactions(state, blink_flags, current_angle) ==
    IF blink_flags.bot = 1 /\ blink_flags.left = 1
    THEN [state |-> [state EXCEPT !.current_gui = 2], action |-> SwitchGui(2)]
    ELSE IF blink_flags.bot = 1 /\ blink_flags.center = 1
    THEN [state |-> state, action |-> Action("switch_angle")]
    ELSE IF blink_flags.top = 1 /\ blink_flags.left = 1
    THEN [state |-> state, action |-> Action("angle_inc")]
    ELSE IF blink_flags.top = 1 /\ blink_flags.right = 1
    THEN [state |-> state, action |-> Action("angle_dec")]
    ELSE IF blink_flags.bot = 1 /\ blink_flags.right = 1
    THEN [state |-> state, action |-> Action("stop")]
    ELSE [state |-> state, action |-> NoAction]

handle_gui2_interactions(state, blink_flags, current_angle) ==
    IF blink_flags.bot = 1 /\ blink_flags.left = 1
    THEN [state |-> [state EXCEPT !.current_gui = 1], action |-> SwitchGui(1)]
    ELSE IF blink_flags.bot = 1 /\ blink_flags.center = 1
    THEN [state |-> [state EXCEPT !.current_gui = 3], action |-> SwitchGui(3)]
    ELSE IF blink_flags.top = 1 /\ blink_flags.left = 1
    THEN [state |-> state, action |-> Action("velocity_inc")]
    ELSE IF blink_flags.top = 1 /\ blink_flags.right = 1
    THEN [state |-> state, action |-> Action("velocity_dec")]
    ELSE IF blink_flags.bot = 1 /\ blink_flags.right = 1
    THEN [state |-> state, action |-> Action("stop")]
    ELSE [state |-> state, action |-> NoAction]

\* a handle_gui3_interactions that maps the dwell as screen 2 does
handle_gui3_interactions_as_gui2(state, blink_flags) ==
    handle_gui2_interactions(state, blink_flags, 1)

handle_gui3_interactions(state, blink_flags) ==
    IF blink_flags.bot = 1 /\ blink_flags.left = 1
    THEN [state |-> [state EXCEPT !.current_gui = 1], action |-> SwitchGui(1)]
    ELSE IF blink_flags.bot = 1 /\ blink_flags.right = 1
    THEN [state |-> state, action |-> Action("stop")]
    ELSE [state |-> state, action |-> NoAction]

handle_interactions(state, blink_flags, dbl_blink_gui, current_angle) ==
    IF dbl_blink_gui = 0
    THEN [state |-> state, action |-> NoAction]
    ELSE IF state.current_gui = 1
    THEN handle_gui1_interactions(state, blink_flags, current_angle)
    ELSE IF state.current_gui = 2
    THEN handle_gui2_interactions(state, blink_flags, current_angle)
    ELSE IF state.current_gui = 3
    THEN handle_gui3_interactions(state, blink_flags)
    ELSE [state |-> state, action |-> NoAction]

(***************************************************************************)
(* History of the run.  These fields are written from the inputs and the   *)
(* dispatched commands only; no operation of the program reads them.       *)
(*   last_kind     kind of the most recent face frame: "none", "open",     *)
(*                 "blink"                                                 *)
(*   last_open     position classified on the most recent open-eye frame   *)
(*   has_blink     a blink frame has been processed                        *)
(*   dwell         dwell selection captured on the most recent blink frame *)
(*   open_between  an open-eye frame was processed since that blink frame  *)
(*   moved         since that blink frame two successive open-eye frames   *)
(*                 were classified at different positions                  *)
(*   reset_since   a command that resets the interaction state was         *)
(*                 dispatched on that blink frame or after it              *)
(*   pair          the most recent blink frame and the one before it:      *)
(*                 valid (there are two), gap (an open-eye frame between   *)
(*                 them), same (the same dwell selection at both), moved   *)
(*                 and reset (moved and reset_since as the second found    *)
(*                 them)                                                   *)
(*   mode          "inc" / "dec" after a dispatched angle_inc / angle_dec, *)
(*                 "stopped" after a dispatched stop, "start" before any   *)
(*                 of them                                                 *)
(*   held          [n, chan, rate]: the increase command has been active   *)
(*                 for n successive face frames on channel chan, at rate   *)
(*                 rate, starting from angle 0 (n = 0: no such run)        *)
(*   was_reset     a command that resets the interaction state has been    *)
(*                 dispatched                                              *)
(*   onsets        blink frames directly preceded by an open-eye frame     *)
(*                 processed since the last such command, counted up to 2  *)
(***************************************************************************)
ResetTypes == {"switch_gui", "switch_angle", "velocity_inc", "velocity_dec", "stop"}

ContinuousTypes == {"angle_inc", "angle_dec"}

NoPair ==
    [valid |-> FALSE, gap |-> FALSE, same |-> FALSE, moved |-> FALSE, reset |-> FALSE]

NoHeld == [n |-> 0, chan |-> 1, rate |-> 0]

HistInit ==
    [last_kind |-> "none", last_open |-> ZeroFlags, has_blink |-> FALSE,
     dwell |-> ZeroFlags, open_between |-> FALSE, moved |-> FALSE,
     reset_since |-> FALSE, pair |-> NoPair, mode |-> "start", held |-> NoHeld,
     was_reset |-> FALSE, onsets |-> 0]

\* the history after a face frame: `dwell` is the dwell selection after the
\* frame, `before` / `after` the channels before / after the angle update
HistFace(h, blinking, current_flags, dwell, action, before, after) ==
    LET mode == IF action.type = "angle_inc" THEN "inc"
                ELSE IF action.type = "angle_dec" THEN "dec"
                ELSE IF action.type = "stop" THEN "stopped"
                ELSE h.mode
        chan == after.current_angle
        rate == after.angle_velocities[chan]
        held == IF mode # "inc" THEN NoHeld
                ELSE IF h.held.n > 0 /\ h.held.chan = chan /\ h.held.rate = rate
                THEN [h.held EXCEPT !.n = @ + 1]
                ELSE IF before.angle_positions[chan] = 0
                THEN [n |-> 1, chan |-> chan, rate |-> rate]
                ELSE NoHeld
        was_reset == h.was_reset \/ action.type \in ResetTypes
        onsets == IF action.type \in ResetTypes THEN 0
                  ELSE IF blinking /\ h.last_kind = "open" THEN Min(2, h.onsets + 1)
                  ELSE h.onsets
    IN IF blinking
       THEN [h EXCEPT !.last_kind = "blink", !.has_blink = TRUE,
                      !.dwell = dwell, !.open_between = FALSE,
                      !.moved = FALSE,
                      !.reset_since = (action.type \in ResetTypes),
                      !.pair = [valid |-> h.has_blink,
                                gap |-> h.open_between,
                                same |-> (h.has_blink /\ dwell = h.dwell),
                                moved |-> h.moved,
                                reset |-> h.reset_since],
                      !.mode = mode, !.held = held,
                      !.was_reset = was_reset, !.onsets = onsets]
       ELSE [h EXCEPT !.last_kind = "open", !.last_open = current_flags,
                      !.open_between = TRUE,
                      !.moved = (h.moved \/ (h.last_kind = "open"
                                             /\ h.last_open # current_flags)),
                      !.reset_since = (h.reset_since \/ action.type \in ResetTypes),
                      !.mode = mode, !.held = held,
                      !.was_reset = was_reset, !.onsets = onsets]

(***************************************************************************)
(* main.py: one iteration of the loop of EyeTrackingApp.run on the camera  *)
(* frame `frame`.  loc.dbl is dbl_blink_gui as handle_blinking leaves it,  *)
(* the value passed to update_display and handle_interactions.             *)
(***************************************************************************)
LocInit ==
    [face_detected |-> FALSE, is_blinking |-> FALSE, current_flags |-> ZeroFlags,
     dbl |-> 0, action |-> NoAction]

run_iteration(frame) ==
    LET pf == process_frame(app, frame)
    IN IF pf.face_detected
       THEN LET current_flags == determine_gaze_position(pf.self, pf.gaze_data)
                hb == handle_blinking(pf.self, pf.gaze_data, current_flags)
                hi == handle_interactions(gui, hb.self.blink_flags,
                                          hb.self.dbl_blink_gui,
                                          hb.self.current_angle)
                pa == IF hi.action.type # "none"
                      THEN process_gui_action(hb.self, hi.action)
                      ELSE hb.self
                ua == update_angle_positions(pa)
            IN /\ camera' = frame
               /\ app' = ua
               /\ gui' = hi.state
               /\ loc' = [face_detected |-> TRUE,
                          is_blinking |-> hb.is_blinking,
                          current_flags |-> current_flags,
                          dbl |-> hb.self.dbl_blink_gui,
                          action |-> hi.action]
               /\ hist' = HistFace(hist, hb.is_blinking, current_flags,
                                   hb.self.blink_flags, hi.action, pa, ua)
       ELSE /\ camera' = frame
            /\ app' = pf.self
            /\ gui' = gui
            /\ loc' = [loc EXCEPT !.face_detected = FALSE]
            /\ hist' = hist

(***************************************************************************)
(* memory_sharing.py: MemoryShare.  The store is the content of the JSON   *)
(* file; button_index 0..5 of the code is index 1..6 here.                 *)
(***************************************************************************)
AllFalse == [i \in 1..6 |-> FALSE]

MemoryInit == [color_flags |-> AllFalse, second_flag |-> FALSE]

\* an update_color_flag that leaves the other flags as they are
update_color_flag_keeps_others(data, button_index, value) ==
    IF 0 <= button_index /\ button_index < 6
    THEN [data EXCEPT !.color_flags[button_index + 1] = value]
    ELSE data

update_color_flag(data, button_index, value) ==
    IF 0 <= button_index /\ button_index < 6
    THEN IF value
         THEN [data EXCEPT !.color_flags = [AllFalse EXCEPT ![button_index + 1] = TRUE]]
         ELSE [data EXCEPT !.color_flags[button_index + 1] = FALSE]
    ELSE data

update_second_flag(data, value) == [data EXCEPT !.second_flag = value]

toggle_color_flag(data, button_index) ==
    IF 0 <= button_index /\ button_index < 6
    THEN IF data.color_flags[button_index + 1]
         THEN [data EXCEPT !.color_flags[button_index + 1] = FALSE]
         ELSE [data EXCEPT !.color_flags = [AllFalse EXCEPT ![button_index + 1] = TRUE]]
    ELSE data

toggle_second_flag(data) == [data EXCEPT !.second_flag = ~data.second_flag]

\* the list get_buttons_to_click returns for the data read_memory gave it
get_buttons_to_click(data) ==
    IF data.second_flag
    THEN SelectSeq(<<0, 1, 2, 3, 4, 5>>, LAMBDA i : data.color_flags[i + 1])
    ELSE <<>>

(***************************************************************************)
(* face_tracker/gaze_analyzer.py: GazeAnalyzer                             *)
(***************************************************************************)
\* an analyze_position that uses the upper thresholds in both halves
analyze_position_upper_thresholds(calib, side_ratio, tb_ratio) ==
    LET top == FracGt(tb_ratio, calib.tb)
    IN IF FracLt(side_ratio, calib.ru) THEN <<FALSE, TRUE, FALSE, top, ~top>>
       ELSE IF FracGt(side_ratio, calib.lu) THEN <<FALSE, FALSE, TRUE, top, ~top>>
       ELSE <<TRUE, FALSE, FALSE, top, ~top>>

\* the tuple (center_flag, right_flag, left_flag, top_flag, bot_flag)
analyze_position(calib, side_ratio, tb_ratio) ==
    IF FracGt(tb_ratio, calib.tb)
    THEN IF FracLt(side_ratio, calib.ru) THEN <<FALSE, TRUE, FALSE, TRUE, FALSE>>
         ELSE IF FracGt(side_ratio, calib.lu) THEN <<FALSE, FALSE, TRUE, TRUE, FALSE>>
         ELSE <<TRUE, FALSE, FALSE, TRUE, FALSE>>
    ELSE IF FracLt(side_ratio, calib.rd) THEN <<FALSE, TRUE, FALSE, FALSE, TRUE>>
         ELSE IF FracGt(side_ratio, calib.ld) THEN <<FALSE, FALSE, TRUE, FALSE, TRUE>>
         ELSE <<TRUE, FALSE, FALSE, FALSE, TRUE>>

\* mouth_ratio is in tenths, the threshold mouth * 0.8 in hundredths
is_mouth_open(calib, mouth_ratio) ==
    mouth_ratio * 10 > calib.mouth * MOUTH_THRESHOLD_MULTIPLIER

(***************************************************************************)
(* utils/data_processing.py                                                *)
(***************************************************************************)
moving_average(values) ==
    IF values = <<>> THEN <<0, 1>> ELSE <<SeqSum(values), Len(values)>>

\* a rearrange_circular_buffer that removes the newest value
rearrange_circular_buffer_drops_newest(new_value, buffer) ==
    Append(SubSeq(buffer, 1, Len(buffer) - 1), new_value)

rearrange_circular_buffer(new_value, buffer) == Append(Tail(buffer), new_value)

(***************************************************************************)
(* main_tracker.py: EyeTrackingSystem                                      *)
(***************************************************************************)
NoResults ==
    [face_detected |-> FALSE, side_ratio |-> <<0, 1>>, tb_ratio |-> <<0, 1>>,
     mouth_open |-> FALSE, center_flag |-> FALSE,
     right_flag |-> FALSE, left_flag |-> FALSE, top_flag |-> FALSE,
     bot_flag |-> FALSE]

TrackerInit ==
    [calibration_data |-> CalibProfile,
     side_buffer |-> [i \in 1..MOVING_AVERAGE_WINDOW |-> 0],
     tb_buffer |-> [i \in 1..MOVING_AVERAGE_WINDOW |-> 0],
     frame_count |-> 0,
     results |-> NoResults]

\* EyeTrackingSystem.process_frame: None (here NoResults) without a face
tracker_process_frame(self, frame) ==
    IF ~frame.face
    THEN [self |-> self, results |-> NoResults]
    ELSE LET filling == self.frame_count < MOVING_AVERAGE_WINDOW
             side_buffer == IF filling
                            THEN [self.side_buffer EXCEPT ![self.frame_count + 1] =
                                      frame.side_gaze_ratio]
                            ELSE rearrange_circular_buffer(frame.side_gaze_ratio,
                                                           self.side_buffer)
             tb_buffer == IF filling
                          THEN [self.tb_buffer EXCEPT ![self.frame_count + 1] =
                                    frame.tb_ratio]
                          ELSE rearrange_circular_buffer(frame.tb_ratio, self.tb_buffer)
             side_ratio == IF filling THEN <<frame.side_gaze_ratio, 1>>
                           ELSE moving_average(side_buffer)
             tb_ratio == IF filling THEN <<frame.tb_ratio, 1>>
                         ELSE moving_average(tb_buffer)
             position_flags == analyze_position(self.calibration_data, side_ratio, tb_ratio)
         IN [self |-> [self EXCEPT !.side_buffer = side_buffer,
                                   !.tb_buffer = tb_buffer,
                                   !.frame_count = IF filling THEN @ + 1 ELSE @],
             results |-> [face_detected |-> TRUE,
                          side_ratio |-> side_ratio,
                          tb_ratio |-> tb_ratio,
                          mouth_open |-> is_mouth_open(self.calibration_data,
                                                       frame.mouth_ratio),
                          center_flag |-> position_flags[1],
                          right_flag |-> position_flags[2],
                          left_flag |-> position_flags[3],
                          top_flag |-> position_flags[4],
                          bot_flag |-> position_flags[5]]]

\* the button of a gaze position, -1 for none
target_button_of(results) ==
    IF results.left_flag /\ results.top_flag THEN 0
    ELSE IF results.center_flag /\ results.top_flag THEN -1
    ELSE IF results.right_flag /\ results.top_flag THEN 2
    ELSE IF results.left_flag /\ results.bot_flag THEN 3
    ELSE IF results.center_flag /\ results.bot_flag THEN 4
    ELSE IF results.right_flag /\ results.bot_flag THEN 5
    ELSE -1

\* a map_gaze_to_buttons that leaves the color flags alone when the gaze
\* position has no button
map_gaze_to_buttons_keeps_color(data, results) ==
    IF ~results.face_detected
    THEN data
    ELSE LET target_button == target_button_of(results)
             colored == IF target_button # -1
                        THEN update_color_flag(data, target_button, TRUE)
                        ELSE data
         IN IF results.mouth_open # colored.second_flag
            THEN update_second_flag(colored, results.mouth_open)
            ELSE colored

\* EyeTrackingSystem.map_gaze_to_buttons: the store it leaves
map_gaze_to_buttons(data, results) ==
    IF ~results.face_detected
    THEN data
    ELSE LET target_button == target_button_of(results)
             first_set == CHOOSE i \in 0..5 :
                              /\ data.color_flags[i + 1]
                              /\ \A j \in 0..5 : data.color_flags[j + 1] => i <= j
             colored == IF target_button # -1
                        THEN update_color_flag(data, target_button, TRUE)
                        ELSE IF \E i \in 0..5 : data.color_flags[i + 1]
                        THEN update_color_flag(data, first_set, FALSE)
                        ELSE data
         IN IF results.mouth_open # colored.second_flag
            THEN update_second_flag(colored, results.mouth_open)
            ELSE colored

\* one iteration of the loop of EyeTrackingSystem.run
tracker_iteration(frame) ==
    LET pf == tracker_process_frame(tracker, frame)
    IN /\ camera' = frame
       /\ tracker' = [pf.self EXCEPT !.results = pf.results]
       /\ memory' = map_gaze_to_buttons(memory, pf.results)

(***************************************************************************)
(* The operator in front of the camera.  Either the camera delivers any    *)
(* input on every frame ("any", for MaxFrames frames), or the operator     *)
(* performs double-blink gestures one after the other ("gesture"): looks   *)
(* at a target until the filters have settled (FilterSize open-eye         *)
(* frames), blinks for one frame, opens the eyes for one frame and blinks  *)
(* for one frame again, the gaze ratios staying those of the target.       *)
(* After the gestures the operator may keep looking at the last target     *)
(* with open eyes ("hold").                                                *)
(***************************************************************************)
OperatorInit ==
    [mode |-> "idle", gestures |-> 0, step |-> 0,
     target |-> [tb_ratio |-> 0, side_gaze_ratio |-> 0], hold |-> 0]

Targets == [tb_ratio : TbRatios, side_gaze_ratio : SideRatios]

\* the targets classified top+left and bottom+left under CalibProfile
LeftTargets == [tb_ratio : TbRatios, side_gaze_ratio : {15}]

GestureLen == FilterSize + 3

OpenFrame(target) ==
    [face |-> TRUE, blink_ratio |-> 30, tb_ratio |-> target.tb_ratio,
     side_gaze_ratio |-> target.side_gaze_ratio, mouth_ratio |-> 0]

BlinkFrame(target) ==
    [face |-> TRUE, blink_ratio |-> 50000, tb_ratio |-> target.tb_ratio,
     side_gaze_ratio |-> target.side_gaze_ratio, mouth_ratio |-> 0]

\* the frame the camera delivers at step k (from 0) of a gesture
GestureFrame(target, k) ==
    IF k = FilterSize \/ k = FilterSize + 2
    THEN BlinkFrame(target) ELSE OpenFrame(target)

(***************************************************************************)
(* The two gaze classifiers as functions: GazeAnalyzer.analyze_position    *)
(* and EyeTrackingApp.determine_gaze_position applied to the same profile  *)
(* and the same pair of ratios.                                            *)
(***************************************************************************)
ClassifierThresholds == {6, 8, 12}

ClassifierProfiles ==
    [lu : ClassifierThresholds, ru : ClassifierThresholds,
     ld : ClassifierThresholds, rd : ClassifierThresholds,
     tb : {10}, mouth : {5}]

ClassifierSideRatios == {5, 6, 8, 10, 12, 20}

ClassifierTbRatios == {5, 10, 20}

ClassifierIdle ==
    [called |-> FALSE, profile |-> CalibProfile, side_ratio |-> 0, tb_ratio |-> 0,
     position |-> <<FALSE, FALSE, FALSE, FALSE, FALSE>>, flags |-> ZeroFlags]

Classify ==
    /\ program = "classifier"
    /\ ~classifier.called
    /\ \E profile \in ClassifierProfiles, side_ratio \in ClassifierSideRatios,
          tb_ratio \in ClassifierTbRatios :
          classifier' =
              [called |-> TRUE, profile |-> profile,
               side_ratio |-> side_ratio, tb_ratio |-> tb_ratio,
               position |-> analyze_position(profile, <<side_ratio, 1>>,
                                             <<tb_ratio, 1>>),
               flags |-> determine_gaze_position(
                             [calib_data |-> profile],
                             [tb_ratio |-> <<tb_ratio, 1>>,
                              side_gaze_ratio |-> <<side_ratio, 1>>])]
    /\ UNCHANGED <<program, session, disk, files, calc, procs>>
    /\ UNCHANGED runtime_vars

RuntimeInit ==
    /\ app = reset_state
    /\ gui = GUIState
    /\ loc = LocInit
    /\ tracker = TrackerInit
    /\ memory = MemoryInit
    /\ camera = NoFace
    /\ frames = 0
    /\ operator = OperatorInit
    /\ hist = HistInit

SessionIdle == [engine |-> "none"]

DiskIdle == [exists |-> FALSE, line |-> <<>>]

FilesIdle == [op |-> "none"]

CalcIdle == [op |-> "none"]

ProcsIdle == <<>>

OfflineInit ==
    /\ classifier = ClassifierIdle
    /\ session = SessionIdle
    /\ disk = DiskIdle
    /\ files = FilesIdle
    /\ calc = CalcIdle
    /\ procs = ProcsIdle

Init ==
    /\ program \in {"app", "tracker"}
    /\ RuntimeInit
    /\ OfflineInit

\* any camera input
AppFrame ==
    /\ program = "app"
    /\ operator.mode \in {"idle", "any"}
    /\ frames < MaxFrames
    /\ \E frame \in CameraInputs : run_iteration(frame)
    /\ frames' = frames + 1
    /\ operator' = [operator EXCEPT !.mode = "any"]
    /\ UNCHANGED <<program, tracker, memory>>
    /\ UNCHANGED offline_vars

\* any camera input to the flag-store tracker
TrackerFrame ==
    /\ program = "tracker"
    /\ frames < MaxTrackerFrames
    /\ \E frame \in {NoFace} \cup TrackerFaceInputs : tracker_iteration(frame)
    /\ frames' = frames + 1
    /\ UNCHANGED <<program, app, gui, loc, operator, hist>>
    /\ UNCHANGED offline_vars

\* the operator turns to one of `targets` and starts a gesture
OperatorLooks(targets) ==
    /\ program = "app"
    /\ operator.mode \in {"idle", "gesture"}
    /\ operator.step = 0
    /\ operator.hold = 0
    /\ operator.gestures < MaxGestures
    /\ \E t \in targets :
          /\ run_iteration(GestureFrame(t, 0))
          /\ operator' = [operator EXCEPT !.mode = "gesture", !.target = t,
                                          !.gestures = @ + 1, !.step = 1]
    /\ frames' = frames + 1
    /\ UNCHANGED <<program, tracker, memory>>
    /\ UNCHANGED offline_vars

\* the next frame of the gesture under way
OperatorGesture ==
    /\ program = "app"
    /\ operator.mode = "gesture"
    /\ operator.step > 0
    /\ run_iteration(GestureFrame(operator.target, operator.step))
    /\ operator' = [operator EXCEPT !.step = (@ + 1) % GestureLen]
    /\ frames' = frames + 1
    /\ UNCHANGED <<program, tracker, memory>>
    /\ UNCHANGED offline_vars

\* the operator keeps looking at the last target with open eyes
OperatorHolds ==
    /\ program = "app"
    /\ operator.mode = "gesture"
    /\ operator.step = 0
    /\ operator.hold < MaxHold
    /\ run_iteration(OpenFrame(operator.target))
    /\ operator' = [operator EXCEPT !.hold = @ + 1]
    /\ frames' = frames + 1
    /\ UNCHANGED <<program, tracker, memory>>
    /\ UNCHANGED offline_vars

(***************************************************************************)
(* Spec: any camera input for MaxFrames frames, or MaxGestures gestures at *)
(* any of the six targets.                                                 *)
(* SpecAngle: gestures at the two left targets, then a long look at the    *)
(* last target.                                                            *)
(***************************************************************************)
Next ==
    \/ AppFrame
    \/ TrackerFrame
    \/ OperatorLooks(Targets)
    \/ OperatorGesture

Spec == Init /\ [][Next]_vars

NextAngle ==
    \/ OperatorLooks(LeftTargets)
    \/ OperatorGesture
    \/ OperatorHolds

SpecAngle == Init /\ [][NextAngle]_vars

(***************************************************************************)
(* SpecVelocity: an operator who adjusts velocities, for MaxAdjustments    *)
(* gestures, enough to take a channel from its initial velocity to either  *)
(* end of the range.  On screen 1 the operator selects the channel (bottom *)
(* + center) or opens screen 2 (bottom + left); on screen 2 the operator   *)
(* raises (top + left) or lowers (top + right) the velocity or goes back   *)
(* to screen 1 (bottom + left).                                            *)
(***************************************************************************)
VelocityTargets ==
    IF gui.current_gui = 1
    THEN {t \in Targets : t.tb_ratio = 5 /\ t.side_gaze_ratio \in {10, 15}}
    ELSE {t \in Targets : t.side_gaze_ratio = 15
                          \/ (t.tb_ratio = 15 /\ t.side_gaze_ratio = 5)}

\* the operator turns to one of VelocityTargets and starts a gesture
OperatorAdjusts ==
    /\ program = "app"
    /\ operator.mode \in {"idle", "gesture"}
    /\ operator.step = 0
    /\ operator.gestures < MaxAdjustments
    /\ \E t \in VelocityTargets :
          /\ run_iteration(GestureFrame(t, 0))
          /\ operator' = [operator EXCEPT !.mode = "gesture", !.target = t,
                                          !.gestures = @ + 1, !.step = 1]
    /\ frames' = frames + 1
    /\ UNCHANGED <<program, tracker, memory>>
    /\ UNCHANGED offline_vars

\* SpecBlink: for MaxBlinkFrames frames the camera shows no face or a face
\* with open or closed eyes looking at one of two targets, bottom + left
\* (switch_gui on every screen) and bottom + right (stop).
BlinkTargets == {t \in Targets : t.tb_ratio = 5 /\ t.side_gaze_ratio \in {5, 15}}

BlinkInputs ==
    {NoFace} \cup {OpenFrame(t) : t \in BlinkTargets}
             \cup {BlinkFrame(t) : t \in BlinkTargets}

BlinkFrames ==
    /\ program = "app"
    /\ frames < MaxBlinkFrames
    /\ \E frame \in BlinkInputs : run_iteration(frame)
    /\ frames' = frames + 1
    /\ UNCHANGED <<program, tracker, memory, operator>>
    /\ UNCHANGED offline_vars

NextBlink == BlinkFrames

SpecBlink == Init /\ [][NextBlink]_vars

NextVelocity ==
    \/ OperatorAdjusts
    \/ OperatorGesture

SpecVelocity == Init /\ [][NextVelocity]_vars

(***************************************************************************)
(* The calibration file.  A line of text is a sequence of tokens: a comma, *)
(* the text of a number (of a float f"{x}", or of the int 0, which is "0"  *)
(* and not "0.0") or any other text.  float() of the text of a number is   *)
(* the number.                                                             *)
(***************************************************************************)
Comma == [kind |-> "comma", value |-> Zero]

FloatText(x) == [kind |-> "float", value |-> x]

IntText(n) == [kind |-> "int", value |-> <<n, 1>>]

OtherText == [kind |-> "other", value |-> Zero]

\* ",".join of the texts of six values
RECURSIVE JoinFields(_)
JoinFields(fields) ==
    IF fields = <<>> THEN <<>>
    ELSE IF Len(fields) = 1 THEN Head(fields)
    ELSE Head(fields) \o <<Comma>> \o JoinFields(Tail(fields))

\* str.split(","): the fields between the commas, at least one
RECURSIVE SplitLine(_, _)
SplitLine(line, field) ==
    IF line = <<>> THEN <<field>>
    ELSE IF Head(line) = Comma THEN <<field>> \o SplitLine(Tail(line), <<>>)
    ELSE SplitLine(Tail(line), Append(field, Head(line)))

\* open(file, "w") followed by file.write(line)
WriteFile(line) == [exists |-> TRUE, line |-> line]

(***************************************************************************)
(* Time.  A timestamp is kept as its age, the time elapsed since it was    *)
(* taken, in tenths of a second; ages saturate at AgeCap.  self.timer =    *)
(* 0.0 is a timestamp of age AgeCap, self.timer = time.time() one of age 0 *)
(* and time.time() - self.timer is the age.                                *)
(***************************************************************************)
AgeCap == 60

\* run_calibration: "time.time() - self.timer > 2.9"
ManagerDwell == 29

\* config.py: CALIBRATION_DURATION = 2.9
CALIBRATION_DURATION == 29

\* the time between two iterations of a calibration loop: in a capture stage
\* exactly the dwell duration or a tenth more
FrameTimes(stage) == IF stage % 2 = 0 /\ stage # 0 THEN {29, 30} ELSE {30}

Elapse(age, dt) == Min(AgeCap, age + dt)

(***************************************************************************)
(* Camera input of a calibration loop: whether cap.read() succeeded and    *)
(* the measurements (in tenths) of the faces the detector found            *)
(***************************************************************************)
FaceA == [side_ratio |-> 8, tb_ratio |-> 16, mouth_ratio |-> 4]

FaceB == [side_ratio |-> 16, tb_ratio |-> 8, mouth_ratio |-> 6]

CalibrationFaces == {<<>>, <<FaceA>>, <<FaceB, FaceA>>}

Keys == {"none", "esc", "q"}

(***************************************************************************)
(* calibration.py: CalibrationManager.  calibration_points is written by   *)
(* collect_calibration_sample and never read; it is left out.              *)
(***************************************************************************)
NoValues == [side |-> 0, top |-> 0, mouth |-> 0]

CalibrationManager ==
    [current_stage |-> 0, calibration_values |-> NoValues, sample_count |-> 0,
     timer |-> AgeCap]

get_stage_point_name(stage) ==
    CASE stage = 2 -> "lu" [] stage = 4 -> "ru" [] stage = 6 -> "rd"
      [] stage = 8 -> "ld" [] stage = 10 -> "mouth" [] OTHER -> "None"

collect_calibration_sample(self, faces, point_name) ==
    IF faces = <<>>
    THEN self
    ELSE LET face == faces[1]
         IN IF point_name = "mouth"
            THEN [self EXCEPT !.calibration_values.mouth = @ + face.mouth_ratio,
                              !.sample_count = @ + 1]
            ELSE [self EXCEPT !.calibration_values.side = @ + face.side_ratio,
                              !.calibration_values.top = @ + face.tb_ratio,
                              !.sample_count = @ + 1]

\* raises ZeroDivisionError when sample_count is 0
get_average_values(self, point_name) ==
    IF self.sample_count = 0
    THEN [raised |-> TRUE, side_avg |-> Zero, top_avg |-> Zero]
    ELSE IF point_name = "mouth"
    THEN [raised |-> FALSE, side_avg |-> Zero,
          top_avg |-> Norm(<<self.calibration_values.mouth, self.sample_count>>)]
    ELSE [raised |-> FALSE,
          side_avg |-> Norm(<<self.calibration_values.side, self.sample_count>>),
          top_avg |-> Norm(<<self.calibration_values.top, self.sample_count>>)]

reset_calibration_values(self) ==
    [self EXCEPT !.calibration_values = NoValues, !.sample_count = 0]

\* an advance_stage that stays in the stage
advance_stage_stays(self) ==
    [reset_calibration_values(self) EXCEPT !.timer = 0]

advance_stage(self) ==
    [reset_calibration_values([self EXCEPT !.current_stage = @ + 1])
        EXCEPT !.timer = 0]

\* the dict calibration_results of run_calibration: an entry for each key,
\* set or not; dict.get(key, 0) of a key not set is the int 0
NoEntry == [set |-> FALSE, value |-> Zero]

Entry(v) == [set |-> TRUE, value |-> v]

ResultKeys ==
    {"lu_side", "lu_top", "ru_side", "ru_top", "rd_side", "rd_top",
     "ld_side", "ld_top", "mouth"}

NoCalibrationResults == [k \in ResultKeys |-> NoEntry]

TextOf(e) == IF e.set THEN FloatText(e.value) ELSE IntText(0)

\* CalibrationManager.save_calibration_data: the line written
save_calibration_data(results) ==
    JoinFields(<<<<TextOf(results.lu_side)>>, <<TextOf(results.ru_side)>>,
                 <<TextOf(results.ld_side)>>, <<TextOf(results.rd_side)>>,
                 <<TextOf(results.tb)>>, <<TextOf(results.mouth)>>>>)

\* run_calibration with the two lower corners exchanged
final_results_lower_swapped(calibration_results) ==
    [lu_side |-> calibration_results["lu_side"],
     ru_side |-> calibration_results["ru_side"],
     ld_side |-> calibration_results["rd_side"],
     rd_side |-> calibration_results["ld_side"],
     tb |-> Entry(FracDiv(FracAdd(FracAdd(calibration_results["lu_top"].value,
                                          calibration_results["ru_top"].value),
                                  FracAdd(calibration_results["rd_top"].value,
                                          calibration_results["ld_top"].value)), 4)),
     mouth |-> calibration_results["mouth"]]

\* run_calibration after the loop: the final values
final_results(calibration_results) ==
    [lu_side |-> calibration_results["lu_side"],
     ru_side |-> calibration_results["ru_side"],
     ld_side |-> calibration_results["ld_side"],
     rd_side |-> calibration_results["rd_side"],
     tb |-> Entry(FracDiv(FracAdd(FracAdd(calibration_results["lu_top"].value,
                                          calibration_results["ru_top"].value),
                                  FracAdd(calibration_results["rd_top"].value,
                                          calibration_results["ld_top"].value)), 4)),
     mouth |-> calibration_results["mouth"]]

\* one iteration of the loop of run_calibration, with what follows the loop
\* when the iteration was the last one.  key_ack is the key read by the
\* waitKey of an instruction stage, key_exit the one read by the waitKey of
\* the exit check.
run_calibration_iteration(s, ret, faces, key_ack, key_exit, dt) ==
    LET now == [s.self EXCEPT !.timer = Elapse(@, dt)]
        stage == now.current_stage
        capture == stage % 2 = 0 /\ stage # 0
        point_name == get_stage_point_name(stage)
        collected == IF capture THEN collect_calibration_sample(now, faces, point_name)
                     ELSE now
        timeout == capture /\ collected.timer > ManagerDwell
        avg == get_average_values(collected, point_name)
        raised == timeout /\ avg.raised
        results == IF ~timeout \/ raised THEN s.calibration_results
                   ELSE IF point_name = "mouth"
                   THEN [s.calibration_results EXCEPT !["mouth"] = Entry(avg.top_avg)]
                   ELSE [s.calibration_results EXCEPT
                            ![point_name \o "_side"] = Entry(avg.side_avg),
                            ![point_name \o "_top"] = Entry(avg.top_avg)]
        staged == IF timeout /\ ~raised THEN advance_stage(collected)
                  ELSE IF ~capture /\ key_ack = "esc" THEN advance_stage(collected)
                  ELSE collected
        final == final_results(results)
    IN IF ~ret
       THEN [s EXCEPT !.status = "camera_failed", !.self = now]
       ELSE IF raised
       THEN [s EXCEPT !.status = "error", !.self = collected]
       ELSE IF key_exit = "q"
       THEN [s EXCEPT !.status = "cancelled", !.self = staged,
                      !.calibration_results = results]
       ELSE IF staged.current_stage <= 10
       THEN [s EXCEPT !.self = staged, !.calibration_results = results]
       ELSE [s EXCEPT !.status = "completed", !.self = staged,
                      !.calibration_results = results]

(***************************************************************************)
(* Log of a calibration session, written from the inputs of the loop and   *)
(* read only by the properties: the sums and the number of the             *)
(* measurements of the faces sampled in the stage under way (sums); for    *)
(* each capture stage left, their means (means); the time since the stage  *)
(* was entered, as it was when the latest iteration started (elapsed) and  *)
(* as it is now (since_entry); the inputs of the latest step, "unread" for *)
(* a key that was not read; the number of times the profile was written    *)
(* (writes).                                                               *)
(***************************************************************************)
CaptureStages == {2, 4, 6, 8, 10}

NoSamples == [side |-> 0, top |-> 0, mouth |-> 0, n |-> 0]

NoMeans == [set |-> FALSE, side |-> Zero, top |-> Zero, mouth |-> Zero]

RECURSIVE AddFaces(_, _)
AddFaces(sums, faces) ==
    IF faces = <<>> THEN sums
    ELSE AddFaces([side |-> sums.side + Head(faces).side_ratio,
                   top |-> sums.top + Head(faces).tb_ratio,
                   mouth |-> sums.mouth + Head(faces).mouth_ratio,
                   n |-> sums.n + 1], Tail(faces))

MeansOf(sums) ==
    IF sums.n = 0 THEN NoMeans
    ELSE [set |-> TRUE, side |-> Norm(<<sums.side, sums.n>>),
          top |-> Norm(<<sums.top, sums.n>>),
          mouth |-> Norm(<<sums.mouth, sums.n>>)]

LogInit ==
    [sums |-> NoSamples,
     means |-> [k \in CaptureStages |-> NoMeans],
     since_entry |-> 0, elapsed |-> 0,
     step |-> "none", ret |-> TRUE, nfaces |-> 0,
     key_ack |-> "unread", key_exit |-> "unread", writes |-> 0]

\* a frame read in `stage`, of which the faces `sampled` are measured
LogFrame(log, stage, ret, nfaces, sampled, dt) ==
    [log EXCEPT
        !.sums = IF ret /\ stage \in CaptureStages THEN AddFaces(@, sampled) ELSE @,
        !.elapsed = Elapse(log.since_entry, dt),
        !.since_entry = Elapse(log.since_entry, dt),
        !.step = "frame", !.ret = ret, !.nfaces = nfaces,
        !.key_ack = "unread", !.key_exit = "unread"]

\* the stage went from `before` to `after`
LogStage(log, before, after) ==
    IF after = before THEN log
    ELSE [log EXCEPT
             !.since_entry = 0,
             !.sums = NoSamples,
             !.means = IF before \in CaptureStages
                       THEN [@ EXCEPT ![before] = MeansOf(log.sums)] ELSE @]

\* the profile was written if `wrote`
LogWrite(log, wrote) == [log EXCEPT !.writes = IF wrote THEN @ + 1 ELSE @]

ManagerInit ==
    [engine |-> "manager", status |-> "running", pc |-> "frame",
     self |-> CalibrationManager,
     calibration_results |-> NoCalibrationResults,
     log |-> LogInit]

\* the inputs an iteration of run_calibration reads in `stage`
ManagerInputs(stage) ==
    [ret : {TRUE}, faces : CalibrationFaces,
     dt : FrameTimes(stage),
     key_ack : IF stage \in CaptureStages THEN {"unread"} ELSE Keys,
     key_exit : Keys]
    \cup [ret : {FALSE}, faces : {<<>>}, dt : FrameTimes(stage),
          key_ack : {"unread"}, key_exit : {"unread"}]

\* one iteration of the loop of CalibrationManager.run_calibration on the
\* inputs `in`: the session after it
ManagerFrameReads(in) ==
    \E next \in {run_calibration_iteration(session, in.ret, in.faces,
                                           in.key_ack, in.key_exit, in.dt)} :
       LET stage == session.self.current_stage
           framed == LogFrame(session.log, stage, in.ret, Len(in.faces),
                              SubSeq(in.faces, 1, Min(1, Len(in.faces))), in.dt)
           keyed == [framed EXCEPT
                       !.key_ack = in.key_ack,
                       !.key_exit = IF next.status = "error" THEN "unread"
                                    ELSE in.key_exit]
       IN session' = [next EXCEPT
                         !.log = LogWrite(LogStage(keyed, stage,
                                                   next.self.current_stage),
                                          next.status = "completed")]

\* save_calibration_data follows when the loop is left at stage 11
ManagerFrame ==
    /\ program = "calibration"
    /\ session.engine = "manager"
    /\ session.status = "running"
    /\ \E in \in ManagerInputs(session.self.current_stage) :
          /\ ManagerFrameReads(in)
          /\ disk' = IF session'.status = "completed"
                      THEN WriteFile(save_calibration_data(
                               final_results(session'.calibration_results)))
                      ELSE disk
    /\ UNCHANGED <<program, classifier, files, calc, procs>>
    /\ UNCHANGED runtime_vars

(***************************************************************************)
(* face_tracker/calibration.py: CalibrationData and CalibrationSystem;     *)
(* main_calibration.py: main                                               *)
(***************************************************************************)
CalibrationData ==
    [lu_side |-> Zero, ru_side |-> Zero, ld_side |-> Zero, rd_side |-> Zero,
     tb |-> Zero, mouth |-> Zero]

\* CalibrationData.save_to_file: the line written
save_to_file(data) ==
    JoinFields(<<<<FloatText(data.lu_side)>>, <<FloatText(data.ru_side)>>,
                 <<FloatText(data.ld_side)>>, <<FloatText(data.rd_side)>>,
                 <<FloatText(data.tb)>>, <<FloatText(data.mouth)>>>>)

StageDataKeys ==
    {"lu_side", "ru_side", "rd_side", "ld_side", "tb_1", "tb_2", "tb_3", "tb_4"}

\* CalibrationSystem.reset_calibration
reset_calibration ==
    [flag |-> 0, accumulated_side |-> 0, accumulated_top |-> 0,
     accumulated_mouth |-> 0, count |-> 0, timer |-> AgeCap,
     data |-> CalibrationData,
     stage_data |-> [k \in StageDataKeys |-> NoEntry]]

StageName(flag) ==
    CASE flag = 2 -> "lu" [] flag = 4 -> "ru" [] flag = 6 -> "rd" [] flag = 8 -> "ld"

TbKey(flag) ==
    CASE flag = 2 -> "tb_1" [] flag = 4 -> "tb_2" [] flag = 6 -> "tb_3"
      [] flag = 8 -> "tb_4"

\* CalibrationSystem.process_frame: the loop over the faces
RECURSIVE system_process_frame(_, _)
system_process_frame(self, faces) ==
    IF faces = <<>> THEN self
    ELSE LET face == Head(faces)
             one ==
                 IF self.flag \in {2, 4, 6, 8}
                 THEN LET side == self.accumulated_side + face.side_ratio
                          top == self.accumulated_top + face.tb_ratio
                          count == self.count + 1
                      IN [self EXCEPT
                             !.accumulated_side = side,
                             !.accumulated_top = top,
                             !.count = count,
                             !.stage_data[StageName(self.flag) \o "_side"] =
                                 Entry(Norm(<<side, count>>)),
                             !.stage_data[TbKey(self.flag)] =
                                 Entry(Norm(<<top, count>>))]
                 ELSE IF self.flag = 10
                 THEN LET mouth == self.accumulated_mouth + face.mouth_ratio
                          count == self.count + 1
                      IN [self EXCEPT !.accumulated_mouth = mouth,
                                      !.count = count,
                                      !.data.mouth = Norm(<<mouth, count>>)]
                 ELSE self
         IN system_process_frame(one, Tail(faces))

\* an _advance_stage that keeps the sample counter
_advance_stage_keeps_count(self) ==
    [self EXCEPT !.flag = @ + 1, !.accumulated_side = 0, !.accumulated_top = 0,
                 !.accumulated_mouth = 0]

_advance_stage(self) ==
    [self EXCEPT !.flag = @ + 1, !.accumulated_side = 0, !.accumulated_top = 0,
                 !.accumulated_mouth = 0, !.count = 0]

handle_timing(self) ==
    IF self.flag % 2 = 0 /\ self.flag # 0 /\ self.timer > CALIBRATION_DURATION
    THEN _advance_stage(self)
    ELSE self

\* a handle_keypress that accepts ESC in every stage
handle_keypress_any_stage(self, key) ==
    IF key = "esc"
    THEN [_advance_stage(self) EXCEPT !.timer = 0]
    ELSE self

handle_keypress(self, key) ==
    IF key = "esc" /\ (self.flag % 2 = 1 \/ self.flag = 0)
    THEN [_advance_stage(self) EXCEPT !.timer = 0]
    ELSE self

is_complete(self) == self.flag >= 11

\* stage_data.get(key, 0.0)
GetFloat(stage_data, key) ==
    IF stage_data[key].set THEN stage_data[key].value ELSE Zero

\* CalibrationSystem.finalize_calibration: the data saved
finalize_calibration(self) ==
    [self.data EXCEPT
        !.lu_side = GetFloat(self.stage_data, "lu_side"),
        !.ru_side = GetFloat(self.stage_data, "ru_side"),
        !.ld_side = GetFloat(self.stage_data, "ld_side"),
        !.rd_side = GetFloat(self.stage_data, "rd_side"),
        !.tb = FracDiv(FracAdd(FracAdd(GetFloat(self.stage_data, "tb_1"),
                                       GetFloat(self.stage_data, "tb_2")),
                               FracAdd(GetFloat(self.stage_data, "tb_3"),
                                       GetFloat(self.stage_data, "tb_4"))), 4)]

SystemInit ==
    [engine |-> "system", status |-> "running", pc |-> "frame",
     self |-> reset_calibration,
     calibration_results |-> NoCalibrationResults,
     log |-> LogInit]

\* main of main_calibration.py, first half of an iteration: cap.read(),
\* process_frame, update_display, handle_timing; the session after it
SystemFrameReads(ret, dt, faces) ==
    \E now \in {[session.self EXCEPT !.timer = Elapse(@, dt)]} :
    \E next \in {IF ret THEN handle_timing(system_process_frame(now, faces))
                 ELSE now} :
       LET sampled == IF ret THEN faces ELSE <<>>
           framed == LogFrame(session.log, now.flag, ret, Len(sampled),
                              sampled, dt)
       IN session' = [session EXCEPT
                         !.self = next,
                         !.status = IF ret THEN @ ELSE "camera_failed",
                         !.pc = IF ret THEN "key" ELSE @,
                         !.log = LogWrite(LogStage(framed, now.flag,
                                                   next.flag), ~ret)]

\* a failed read leaves the loop and finalize_calibration follows
SystemFrame ==
    /\ program = "calibration"
    /\ session.engine = "system"
    /\ session.status = "running"
    /\ session.pc = "frame"
    /\ \E ret \in BOOLEAN, dt \in FrameTimes(session.self.flag),
          faces \in CalibrationFaces :
          LET now == [session.self EXCEPT !.timer = Elapse(@, dt)]
          IN /\ SystemFrameReads(ret, dt, faces)
             /\ disk' = IF ret THEN disk
                         ELSE WriteFile(save_to_file(finalize_calibration(now)))
    /\ UNCHANGED <<program, classifier, files, calc, procs>>
    /\ UNCHANGED runtime_vars

\* second half of an iteration: waitKey, handle_keypress and the test of the
\* loop; the session after it
SystemKeyReads(key) ==
    \E next \in {handle_keypress(session.self, key)} :
       LET keyed == [session.log EXCEPT !.step = "key", !.key_ack = key]
       IN session' = [session EXCEPT
                         !.self = next,
                         !.status = IF is_complete(next) THEN "completed"
                                    ELSE @,
                         !.pc = "frame",
                         !.log = LogWrite(LogStage(keyed, session.self.flag,
                                                   next.flag),
                                          is_complete(next))]

\* finalize_calibration follows when the session is complete
SystemKey ==
    /\ program = "calibration"
    /\ session.engine = "system"
    /\ session.status = "running"
    /\ session.pc = "key"
    /\ \E key \in Keys :
          LET next == handle_keypress(session.self, key)
          IN /\ SystemKeyReads(key)
             /\ disk' = IF is_complete(next)
                         THEN WriteFile(save_to_file(finalize_calibration(next)))
                         ELSE disk
    /\ UNCHANGED <<program, classifier, files, calc, procs>>
    /\ UNCHANGED runtime_vars

InitCalibration ==
    /\ program = "calibration"
    /\ RuntimeInit
    /\ classifier = ClassifierIdle
    /\ session \in {ManagerInit, SystemInit}
    /\ disk = DiskIdle
    /\ files = FilesIdle
    /\ calc = CalcIdle
    /\ procs = ProcsIdle

NextCalibration ==
    \/ ManagerFrame
    \/ SystemFrame
    \/ SystemKey

SpecCalibration == InitCalibration /\ [][NextCalibration]_vars

\* the stage of either engine
Stage(s) == IF s.engine = "manager" THEN s.self.current_stage ELSE s.self.flag

\* an iteration of the loop of either engine, as the session sees it
Iterates ==
    /\ program = "calibration"
    /\ session.status = "running"
    /\ \/ /\ session.engine = "manager"
          /\ \E in \in ManagerInputs(session.self.current_stage) :
                ManagerFrameReads(in)
       \/ /\ session.engine = "system"
          /\ session.pc = "frame"
          /\ \E ret \in BOOLEAN, dt \in FrameTimes(session.self.flag),
                faces \in CalibrationFaces : SystemFrameReads(ret, dt, faces)
       \/ /\ session.engine = "system"
          /\ session.pc = "key"
          /\ \E key \in Keys : SystemKeyReads(key)

\* an iteration that reads ESC while an instruction stage is displayed
EscPressed ==
    /\ program = "calibration"
    /\ session.status = "running"
    /\ Stage(session) <= 10
    /\ Stage(session) \notin CaptureStages
    /\ \/ /\ session.engine = "manager"
          /\ \E in \in ManagerInputs(session.self.current_stage) :
                in.key_ack = "esc" /\ ManagerFrameReads(in)
       \/ /\ session.engine = "system"
          /\ session.pc = "key"
          /\ SystemKeyReads("esc")

\* The loops of run_calibration and of main go on to their next iteration as
\* long as their tests hold, and the operator, asked by an instruction stage
\* to press ESC, does so again and again.
SpecCalibrationLive ==
    /\ InitCalibration
    /\ [][NextCalibration]_vars
    /\ WF_session(Iterates)
    /\ SF_session(EscPressed)

InitClassifier ==
    /\ program = "classifier"
    /\ RuntimeInit
    /\ OfflineInit

SpecClassifier == InitClassifier /\ [][Classify]_vars

(***************************************************************************)
(* Reading and writing the calibration file: FileManager (utils/utils.py)  *)
(* and CalibrationData (face_tracker/calibration.py).  A field of the line *)
(* is the sequence of tokens between two commas.                           *)
(***************************************************************************)
ProfileKeys == {"lu", "ru", "ld", "rd", "tb", "mouth"}

\* whether float(field) succeeds: the field is the text of one number
IsNumber(field) == Len(field) = 1 /\ field[1].kind \in {"float", "int"}

\* float(field) of the text of a number
FloatOf(field) == field[1].value

\* FileManager.get_default_calibration: a dict of texts
get_default_calibration ==
    [lu |-> <<FloatText(<<4, 5>>)>>, ru |-> <<FloatText(<<6, 5>>)>>,
     ld |-> <<FloatText(<<4, 5>>)>>, rd |-> <<FloatText(<<6, 5>>)>>,
     tb |-> <<FloatText(<<1, 1>>)>>, mouth |-> <<FloatText(<<1, 2>>)>>]

\* FileManager.load_calibration_data: the dict of texts returned
FileManager_load_calibration_data(file) ==
    IF ~file.exists THEN get_default_calibration
    ELSE LET values == SplitLine(file.line, <<>>)
         IN  IF Len(values) >= 6
             THEN [lu |-> values[1], ru |-> values[2], ld |-> values[3],
                   rd |-> values[4], tb |-> values[5], mouth |-> values[6]]
             ELSE get_default_calibration

\* FileManager.save_calibration_data writing rd before ld
FileManager_save_calibration_data_rd_first(data) ==
    JoinFields(<<<<FloatText(data.lu)>>, <<FloatText(data.ru)>>,
                 <<FloatText(data.rd)>>, <<FloatText(data.ld)>>,
                 <<FloatText(data.tb)>>, <<FloatText(data.mouth)>>>>)

\* FileManager.save_calibration_data: the line written
FileManager_save_calibration_data(data) ==
    JoinFields(<<<<FloatText(data.lu)>>, <<FloatText(data.ru)>>,
                 <<FloatText(data.ld)>>, <<FloatText(data.rd)>>,
                 <<FloatText(data.tb)>>, <<FloatText(data.mouth)>>>>)

\* CalibrationData.load_from_file: the exception raised, if any, and the
\* data read; the six fields are converted in order, params[i] raising
\* IndexError when the line has no such field and float() ValueError when
\* the field is not a number
load_from_file(file) ==
    IF ~file.exists
    THEN [raised |-> "FileNotFoundError", data |-> CalibrationData]
    ELSE LET params == SplitLine(file.line, <<>>)
             bad == {i \in 1..6 : i > Len(params) \/ ~IsNumber(params[i])}
             first == CHOOSE i \in bad : \A j \in bad : i <= j
         IN  IF bad = {}
             THEN [raised |-> "none",
                   data |-> [lu_side |-> FloatOf(params[1]),
                             ru_side |-> FloatOf(params[2]),
                             ld_side |-> FloatOf(params[3]),
                             rd_side |-> FloatOf(params[4]),
                             tb |-> FloatOf(params[5]),
                             mouth |-> FloatOf(params[6])]]
             ELSE [raised |-> IF first > Len(params) THEN "IndexError"
                              ELSE "ValueError",
                   data |-> CalibrationData]

\* the profiles saved: six values, as fractions
FileProfile(lu, ru, ld, rd, tb, mouth) ==
    [lu |-> lu, ru |-> ru, ld |-> ld, rd |-> rd, tb |-> tb, mouth |-> mouth]

FileProfiles ==
    {FileProfile(<<4, 5>>, <<6, 5>>, <<7, 10>>, <<13, 10>>, <<1, 1>>, <<1, 2>>),
     FileProfile(<<4, 5>>, <<6, 5>>, <<4, 5>>, <<6, 5>>, <<1, 1>>, <<1, 2>>),
     FileProfile(<<6, 5>>, <<4, 5>>, <<13, 10>>, <<7, 10>>, <<11, 10>>, <<3, 5>>),
     FileProfile(<<9, 10>>, <<7, 5>>, <<3, 4>>, <<5, 4>>, <<21, 20>>, <<2, 5>>),
     FileProfile(Zero, Zero, Zero, Zero, Zero, Zero)}

Writers ==
    {"CalibrationData.save_to_file", "CalibrationManager.save_calibration_data",
     "FileManager.save_calibration_data"}

\* the line a writer writes for a profile
LineOf(writer, p) ==
    IF writer = "CalibrationData.save_to_file"
    THEN save_to_file([lu_side |-> p.lu, ru_side |-> p.ru, ld_side |-> p.ld,
                       rd_side |-> p.rd, tb |-> p.tb, mouth |-> p.mouth])
    ELSE IF writer = "CalibrationManager.save_calibration_data"
    THEN save_calibration_data([lu_side |-> Entry(p.lu), ru_side |-> Entry(p.ru),
                                ld_side |-> Entry(p.ld), rd_side |-> Entry(p.rd),
                                tb |-> Entry(p.tb), mouth |-> Entry(p.mouth)])
    ELSE FileManager_save_calibration_data(p)

\* the lines found in the file before anything is saved: well-formed lines
\* (of floats, of the int 0, with a seventh field), lines with fewer than
\* six fields and lines with a field that is not a number
GoodFields ==
    <<<<FloatText(<<9, 10>>)>>, <<FloatText(<<11, 10>>)>>, <<FloatText(<<3, 4>>)>>,
      <<FloatText(<<5, 4>>)>>, <<FloatText(<<1, 1>>)>>, <<FloatText(<<2, 5>>)>>>>

BadFieldTexts == {<<>>, <<OtherText>>, <<FloatText(<<1, 2>>), OtherText>>}

FoundLines ==
    {JoinFields(GoodFields),
     JoinFields(Append(GoodFields, <<OtherText>>)),
     JoinFields([i \in 1..6 |-> <<IntText(0)>>])}
    \cup {JoinFields(SubSeq(GoodFields, 1, n)) : n \in 0..5}
    \cup {JoinFields([GoodFields EXCEPT ![i] = bad]) :
              i \in 1..6, bad \in BadFieldTexts}

FoundFiles == {DiskIdle} \cup {WriteFile(line) : line \in FoundLines}

NothingSaved ==
    [set |-> FALSE, by |-> "none",
     data |-> FileProfile(Zero, Zero, Zero, Zero, Zero, Zero)]

\* files: the last operation on the file, who made it, the profile last
\* saved (if any, and its writer) and what the last load of each reader
\* returned
\* the outcome of a run of a main program: whether a read or a write of the
\* calibration file it depends on failed, whether it ended in an uncaught
\* exception, whether the tracking session started, and the profile the
\* session started with
NoRun ==
    [io |-> "ok", failed |-> FALSE, crashed |-> FALSE, started |-> FALSE,
     profile |-> FileProfile(Zero, Zero, Zero, Zero, Zero, Zero)]

FilesInit ==
    [op |-> "none", by |-> "none", saved |-> NothingSaved, raised |-> "none",
     texts |-> get_default_calibration, data |-> CalibrationData,
     run |-> NoRun]

InitFiles ==
    /\ program = "files"
    /\ RuntimeInit
    /\ classifier = ClassifierIdle
    /\ session = SessionIdle
    /\ disk \in FoundFiles
    /\ files = FilesInit
    /\ calc = CalcIdle
    /\ procs = ProcsIdle

\* a writer saves a profile
SaveFile ==
    /\ program = "files"
    /\ \E writer \in Writers, p \in FileProfiles :
          /\ disk' = WriteFile(LineOf(writer, p))
          /\ files' = [files EXCEPT !.op = "save", !.by = writer,
                                    !.saved = [set |-> TRUE, by |-> writer,
                                                data |-> p]]
    /\ UNCHANGED <<program, classifier, session, calc, procs>>
    /\ UNCHANGED runtime_vars

\* EyeTrackingApp.__init__ / main: file_manager.load_calibration_data
LoadFileManager ==
    /\ program = "files"
    /\ files' = [files EXCEPT !.op = "load",
                              !.by = "FileManager.load_calibration_data",
                              !.raised = "none",
                              !.texts = FileManager_load_calibration_data(disk)]
    /\ UNCHANGED <<program, classifier, session, disk, calc, procs>>
    /\ UNCHANGED runtime_vars

\* EyeTrackingSystem.__init__: CalibrationData.load_from_file
LoadCalibrationData ==
    /\ program = "files"
    /\ LET loaded == load_from_file(disk)
       IN  files' = [files EXCEPT !.op = "load",
                                  !.by = "CalibrationData.load_from_file",
                                  !.raised = loaded.raised,
                                  !.data = loaded.data]
    /\ UNCHANGED <<program, classifier, session, disk, calc, procs>>
    /\ UNCHANGED runtime_vars

NextFiles ==
    \/ SaveFile
    \/ LoadFileManager
    \/ LoadCalibrationData

SpecFiles == InitFiles /\ [][NextFiles]_vars

(***************************************************************************)
(* The main programs and the calibration file: main.py main and            *)
(* main_tracker.py main, with a file system that may fail.  io tells       *)
(* whether every open() for reading fails ("read_fails"), the open() for   *)
(* writing fails ("write_fails") or none does.                             *)
(***************************************************************************)
IOs == {"ok", "read_fails", "write_fails"}

\* FileManager.load_calibration_data when open() may raise: the exception
\* is caught and the default returned
FileManager_load_with_io(file, io) ==
    IF file.exists /\ io = "read_fails" THEN get_default_calibration
    ELSE FileManager_load_calibration_data(file)

\* CalibrationData.load_from_file when open() may raise
load_from_file_with_io(file, io) ==
    IF file.exists /\ io = "read_fails"
    THEN [raised |-> "PermissionError", data |-> CalibrationData]
    ELSE load_from_file(file)

\* the six numbers of a dict of texts; fields that are no numbers are 0 here
NumbersOf(texts) ==
    [k \in ProfileKeys |-> IF IsNumber(texts[k]) THEN FloatOf(texts[k]) ELSE Zero]

\* the outcomes of app.calib_manager.run_calibration(): no profile (the
\* session was cancelled or failed) or the profile it is about to save
CalibrationOutcomes ==
    {[done |-> FALSE, results |-> FileProfile(Zero, Zero, Zero, Zero, Zero, Zero)]}
    \cup {[done |-> TRUE, results |-> p] : p \in FileProfiles}

\* main.py main: the constructor loads the file and converts the mouth
\* field; the calibration runs and saves; on success the file is loaded
\* again, the mouth field converted and app.run() called
AppMain ==
    /\ program = "files"
    /\ \E io \in IOs, outcome \in CalibrationOutcomes :
          LET first == FileManager_load_with_io(disk, io)
              built == IsNumber(first.mouth)
              saved == built /\ outcome.done /\ io # "write_fails"
              after == IF saved
                       THEN WriteFile(LineOf("CalibrationManager.save_calibration_data",
                                             outcome.results))
                       ELSE disk
              second == FileManager_load_with_io(after, io)
              crashed == ~built \/ (saved /\ ~IsNumber(second.mouth))
          IN /\ disk' = after
             /\ files' = [files EXCEPT
                   !.op = "main", !.by = "main.py",
                   !.saved = IF saved
                             THEN [set |-> TRUE,
                                   by |-> "CalibrationManager.save_calibration_data",
                                   data |-> outcome.results]
                             ELSE @,
                   !.run = [io |-> io,
                            failed |-> built /\ outcome.done /\ io # "ok",
                            crashed |-> crashed,
                            started |-> saved /\ ~crashed,
                            profile |-> NumbersOf(second)]]
    /\ UNCHANGED <<program, classifier, session, calc, procs>>
    /\ UNCHANGED runtime_vars

\* main_tracker.py main: the constructor loads the file; FileNotFoundError
\* is caught and reported, any other exception is not caught
TrackerMain ==
    /\ program = "files"
    /\ \E io \in IOs :
          LET loaded == load_from_file_with_io(disk, io)
          IN  files' = [files EXCEPT
                   !.op = "main", !.by = "main_tracker.py",
                   !.run = [io |-> io,
                            failed |-> ~disk.exists \/ io = "read_fails",
                            crashed |-> loaded.raised
                                           \notin {"none", "FileNotFoundError"},
                            started |-> loaded.raised = "none",
                            profile |-> [lu |-> loaded.data.lu_side,
                                         ru |-> loaded.data.ru_side,
                                         ld |-> loaded.data.ld_side,
                                         rd |-> loaded.data.rd_side,
                                         tb |-> loaded.data.tb,
                                         mouth |-> loaded.data.mouth]]]
    /\ UNCHANGED <<program, classifier, session, disk, calc, procs>>
    /\ UNCHANGED runtime_vars

NextStartup ==
    \/ AppMain
    \/ TrackerMain

SpecStartup == InitFiles /\ [][NextStartup]_vars

(***************************************************************************)
(* A MovingAverage of any window size fed with any samples                 *)
(* (utils/utils.py).  calc holds the filter, the samples fed since it was  *)
(* constructed or reset, and the value the latest update returned.         *)
(***************************************************************************)
MaxWindow == 3

MaxSamples == 5

FilterSamples == {0, 5, 12}

FilterNew(window_size) ==
    [op |-> "filter", filter |-> MovingAverage(window_size), samples |-> <<>>,
     out |-> <<0, 1>>]

InitFilter ==
    /\ program = "filter"
    /\ RuntimeInit
    /\ classifier = ClassifierIdle
    /\ session = SessionIdle
    /\ disk = DiskIdle
    /\ files = FilesIdle
    /\ calc \in {FilterNew(w) : w \in 1..MaxWindow}
    /\ procs = ProcsIdle

\* MovingAverage.update
FilterUpdate ==
    /\ program = "filter"
    /\ Len(calc.samples) < MaxSamples
    /\ \E new_value \in FilterSamples :
          LET u == MovingAverage_update(calc.filter, new_value)
          IN  calc' = [calc EXCEPT !.filter = u.filter,
                                   !.samples = Append(@, new_value),
                                   !.out = u.out]
    /\ UNCHANGED <<program, classifier, session, disk, files, procs>>
    /\ UNCHANGED runtime_vars

\* MovingAverage.reset
FilterReset ==
    /\ program = "filter"
    /\ calc.samples # <<>>
    /\ calc' = FilterNew(Len(calc.filter.values))
    /\ UNCHANGED <<program, classifier, session, disk, files, procs>>
    /\ UNCHANGED runtime_vars

NextFilter ==
    \/ FilterUpdate
    \/ FilterReset

SpecFilter == InitFilter /\ [][NextFilter]_vars

(***************************************************************************)
(* The inline filter of EyeTrackingSystem.process_frame (main_tracker.py)  *)
(* and a MovingAverage of the same window, MOVING_AVERAGE_WINDOW, fed the  *)
(* same samples: every frame with a face gives its sample to the tracker,  *)
(* as side ratio and as vertical ratio, and to the MovingAverage; a frame  *)
(* without a face gives none.  calc keeps the MovingAverage, the samples   *)
(* fed and the value the latest update returned.                           *)
(***************************************************************************)
InlineSamples == {5, 15}

InitInline ==
    /\ program = "inline"
    /\ RuntimeInit
    /\ classifier = ClassifierIdle
    /\ session = SessionIdle
    /\ disk = DiskIdle
    /\ files = FilesIdle
    /\ calc = [op |-> "inline", filter |-> MovingAverage(MOVING_AVERAGE_WINDOW),
               samples |-> <<>>, out |-> <<0, 1>>]
    /\ procs = ProcsIdle

\* a frame with a face
InlineSample ==
    /\ program = "inline"
    /\ Len(calc.samples) < MaxInlineSamples
    /\ \E new_value \in InlineSamples :
          LET frame == [face |-> TRUE, blink_ratio |-> 0, tb_ratio |-> new_value,
                        side_gaze_ratio |-> new_value, mouth_ratio |-> 0]
              pf == tracker_process_frame(tracker, frame)
              u == MovingAverage_update(calc.filter, new_value)
          IN  /\ tracker' = [pf.self EXCEPT !.results = pf.results]
              /\ camera' = frame
              /\ calc' = [calc EXCEPT !.filter = u.filter,
                                      !.samples = Append(@, new_value),
                                      !.out = u.out]
    /\ UNCHANGED <<program, app, gui, loc, memory, frames, operator, hist>>
    /\ UNCHANGED <<classifier, session, disk, files, procs>>

\* a frame without a face
InlineNoFace ==
    /\ program = "inline"
    /\ camera.face
    /\ LET pf == tracker_process_frame(tracker, NoFace)
       IN  tracker' = [pf.self EXCEPT !.results = pf.results]
    /\ camera' = NoFace
    /\ UNCHANGED <<program, app, gui, loc, memory, frames, operator, hist>>
    /\ UNCHANGED offline_vars

NextInline ==
    \/ InlineSample
    \/ InlineNoFace

SpecInline == InitInline /\ [][NextInline]_vars

(***************************************************************************)
(* The measurement functions of eye_detection.py (EyeDetector) and of      *)
(* face_tracker/eye_tracker.py (EyeTracker), each applied to one input.    *)
(* A point is <<x, y>>.  A quotient of two distances is kept as its        *)
(* square, the exact fraction of the squared distances, and a constant     *)
(* returned in its place as the square of the constant (1.5 is <<9, 4>>);  *)
(* the numbers returned are never negative, so the squares tell them       *)
(* apart.  A gaze ratio, a quotient of two pixel counts, is kept as the    *)
(* fraction itself.                                                        *)
(***************************************************************************)
\* geometry_utils.midpoint, EyeDetector.midpoint: int((a + b) / 2) of
\* coordinates that are not negative
midpoint(p1, p2) == <<(p1[1] + p2[1]) \div 2, (p1[2] + p2[2]) \div 2>>

\* the square of hypot(x1 - x2, y1 - y2)
Hypot2(p, q) == (p[1] - q[1]) * (p[1] - q[1]) + (p[2] - q[2]) * (p[2] - q[2])

Quotient2(num2, den2) == Norm(<<num2, den2>>)

\* EyeDetector.get_eye_blink_ratio; landmarks[i] is part(eye_points[i - 1])
get_eye_blink_ratio(landmarks) ==
    LET center_top == midpoint(landmarks[2], landmarks[3])
        center_bottom == midpoint(landmarks[6], landmarks[5])
        center == midpoint(landmarks[1], landmarks[4])
        hor_line_length == Hypot2(landmarks[1], landmarks[4])
        ver_line_length == Hypot2(center_top, center_bottom)
        up_ver_line_length == Hypot2(center_top, center)
        bot_ver_line_length == Hypot2(center, center_bottom)
    IN  [ratio |-> IF ver_line_length # 0
                   THEN Quotient2(hor_line_length, ver_line_length) ELSE Zero,
         tb_ratio |-> IF bot_ver_line_length # 0
                      THEN Quotient2(up_ver_line_length, bot_ver_line_length)
                      ELSE <<9, 4>>]

\* EyeTracker.get_tb_ratio
get_tb_ratio(landmarks) ==
    LET center_top == midpoint(landmarks[2], landmarks[3])
        center_bottom == midpoint(landmarks[6], landmarks[5])
        center == midpoint(landmarks[1], landmarks[4])
        up_length == Hypot2(center_top, center)
        bot_length == Hypot2(center, center_bottom)
    IN  IF bot_length = 0 THEN <<9, 4>> ELSE Quotient2(up_length, bot_length)

\* EyeTracker.get_blinking_ratio
get_blinking_ratio(landmarks) ==
    LET center_top == midpoint(landmarks[2], landmarks[3])
        center_bottom == midpoint(landmarks[6], landmarks[5])
        center == midpoint(landmarks[1], landmarks[4])
        hor_length == Hypot2(landmarks[1], landmarks[4])
        ver_length == Hypot2(center_top, center_bottom)
        up_length == Hypot2(center_top, center)
        bot_length == Hypot2(center, center_bottom)
    IN  [ratio |-> IF ver_length # 0 THEN Quotient2(hor_length, ver_length)
                   ELSE Zero,
         tb_ratio |-> IF bot_length = 0 THEN <<25, 1>>
                      ELSE Quotient2(up_length, bot_length)]

\* a mouth ratio with the two distances exchanged
get_mouth_ratio_inverse(mouth) ==
    LET mouth_hor_line == Hypot2(mouth[1], mouth[2])
        mouth_ver_line == Hypot2(mouth[3], mouth[4])
    IN  IF mouth_hor_line # 0 THEN Quotient2(mouth_ver_line, mouth_hor_line)
        ELSE Zero

\* EyeDetector.get_mouth_ratio and EyeTracker.get_mouth_ratio (the same
\* code); mouth[i] is part(MOUTH_POINTS[i - 1]): 62, 66, 60, 64
get_mouth_ratio(mouth) ==
    LET mouth_hor_line == Hypot2(mouth[1], mouth[2])
        mouth_ver_line == Hypot2(mouth[3], mouth[4])
    IN  IF mouth_ver_line # 0 THEN Quotient2(mouth_hor_line, mouth_ver_line)
        ELSE Zero

\* the thresholded crop of an eye: its shape and the white pixels counted
\* in its left and right halves
LeftWidth(eye) == eye.width \div 2

Returned(x) == [raised |-> FALSE, value |-> x]

Raised == [raised |-> TRUE, value |-> Zero]

\* EyeDetector.get_single_eye_gaze_ratio: the outcomes
get_single_eye_gaze_ratio(eye) ==
    IF eye.width * eye.height = 0 THEN {Returned(<<1, 1>>)}
    ELSE IF eye.right_side_white = 0 THEN {Returned(<<2, 1>>)}
    ELSE IF eye.left_side_white = 0 THEN {Returned(<<1, 2>>)}
    ELSE {Returned(Norm(<<eye.left_side_white, eye.right_side_white>>))}

\* EyeTracker.get_gaze_ratio: the outcomes.  The empty crop is handed to
\* cv2.GaussianBlur and cv2.threshold before its size is tested: OpenCV
\* either rejects the empty image with an exception or returns an empty one
get_gaze_ratio(eye) ==
    IF eye.width * eye.height = 0 THEN {Raised, Returned(<<1, 1>>)}
    ELSE IF eye.right_side_white = 0 THEN {Returned(<<2, 1>>)}
    ELSE {Returned(Norm(<<eye.left_side_white, eye.right_side_white>>))}

\* inputs: crops of up to MaxEyeWidth x MaxEyeHeight pixels
MaxEyeWidth == 3

MaxEyeHeight == 2

Eyes ==
    {e \in [width : 0..MaxEyeWidth, height : 0..MaxEyeHeight,
            left_side_white : 0..(MaxEyeWidth * MaxEyeHeight),
            right_side_white : 0..(MaxEyeWidth * MaxEyeHeight)] :
        /\ e.left_side_white <= e.height * LeftWidth(e)
        /\ e.right_side_white <= e.height * (e.width - LeftWidth(e))}

\* inputs: the six landmarks of an eye, corners at the same height, the
\* eyelid points above and below
UpperYs == {2, 3, 4}

LowerYs == {4, 5, 7}

EyeLandmarks ==
    {<<<<0, 4>>, <<2, t1>>, <<6, t2>>, <<8, 4>>, <<6, b4>>, <<2, b5>>>> :
        t1 \in UpperYs, t2 \in UpperYs, b4 \in LowerYs, b5 \in LowerYs}

\* inputs: the landmarks 62, 66 (inner lips) and 60, 64 (mouth corners)
MouthLandmarks ==
    {<<<<ux, u>>, <<4, b>>, <<l, 5>>, <<r, 5>>>> :
        ux \in {4, 5}, u \in {3, 4, 5}, b \in {5, 6, 8}, l \in {0, 2, 4},
        r \in {4, 6}}

GazeCalculators ==
    {"EyeDetector.get_single_eye_gaze_ratio", "EyeTracker.get_gaze_ratio"}

TbCalculators ==
    {"EyeDetector.get_eye_blink_ratio", "EyeTracker.get_tb_ratio",
     "EyeTracker.get_blinking_ratio"}

MouthCalculators == {"EyeDetector.get_mouth_ratio", "EyeTracker.get_mouth_ratio"}

InitMeasure ==
    /\ program = "measure"
    /\ RuntimeInit
    /\ classifier = ClassifierIdle
    /\ session = SessionIdle
    /\ disk = DiskIdle
    /\ files = FilesIdle
    /\ calc = CalcIdle
    /\ procs = ProcsIdle

\* a gaze ratio of one eye
MeasureGaze ==
    /\ program = "measure"
    /\ calc.op = "none"
    /\ \E by \in GazeCalculators, eye \in Eyes :
          \E result \in IF by = "EyeTracker.get_gaze_ratio"
                        THEN get_gaze_ratio(eye)
                        ELSE get_single_eye_gaze_ratio(eye) :
             calc' = [op |-> "gaze", by |-> by, eye |-> eye, result |-> result]
    /\ UNCHANGED <<program, classifier, session, disk, files, procs>>
    /\ UNCHANGED runtime_vars

\* a top-bottom ratio of one eye
MeasureTb ==
    /\ program = "measure"
    /\ calc.op = "none"
    /\ \E by \in TbCalculators, landmarks \in EyeLandmarks :
          calc' = [op |-> "tb", by |-> by, landmarks |-> landmarks,
                   tb_ratio |->
                      IF by = "EyeDetector.get_eye_blink_ratio"
                      THEN get_eye_blink_ratio(landmarks).tb_ratio
                      ELSE IF by = "EyeTracker.get_tb_ratio"
                      THEN get_tb_ratio(landmarks)
                      ELSE get_blinking_ratio(landmarks).tb_ratio]
    /\ UNCHANGED <<program, classifier, session, disk, files, procs>>
    /\ UNCHANGED runtime_vars

\* a mouth ratio
MeasureMouth ==
    /\ program = "measure"
    /\ calc.op = "none"
    /\ \E by \in MouthCalculators, mouth \in MouthLandmarks :
          calc' = [op |-> "mouth", by |-> by, mouth |-> mouth,
                   mouth_ratio |-> get_mouth_ratio(mouth)]
    /\ UNCHANGED <<program, classifier, session, disk, files, procs>>
    /\ UNCHANGED runtime_vars

NextMeasure ==
    \/ MeasureGaze
    \/ MeasureTb
    \/ MeasureMouth

SpecMeasure == InitMeasure /\ [][NextMeasure]_vars

(***************************************************************************)
(* Two callers updating the MemoryShare store at the same time             *)
(* (memory_sharing.py).  An update is read_memory(), a change of the copy  *)
(* read, and write_memory() of the copy.  self.lock is taken inside        *)
(* read_memory and inside write_memory and released when each returns, so  *)
(* one read and one write are each a step that nothing interrupts, and     *)
(* the steps of the two callers interleave freely.  memory is the content  *)
(* of the file; procs keeps the content before the updates and, for each   *)
(* caller, its update, its position and the copy it read.                  *)
(***************************************************************************)
ColorUpdates ==
    [name : {"update_color_flag"}, button_index : {0, 1}, value : BOOLEAN]
    \cup [name : {"toggle_color_flag"}, button_index : {0, 1}, value : {FALSE}]

SecondUpdates ==
    [name : {"update_second_flag"}, button_index : {0}, value : BOOLEAN]
    \cup [name : {"toggle_second_flag"}, button_index : {0}, value : {FALSE}]

\* the change an update makes to the data it read
ApplyUpdate(update, data) ==
    IF update.name = "update_color_flag"
    THEN update_color_flag(data, update.button_index, update.value)
    ELSE IF update.name = "toggle_color_flag"
    THEN toggle_color_flag(data, update.button_index)
    ELSE IF update.name = "update_second_flag"
    THEN update_second_flag(data, update.value)
    ELSE toggle_second_flag(data)

\* the contents of the store before the updates
Stores ==
    {[color_flags |-> flags, second_flag |-> second] :
        flags \in {AllFalse, [AllFalse EXCEPT ![1] = TRUE],
                   [AllFalse EXCEPT ![2] = TRUE]},
        second \in BOOLEAN}

Caller(update) == [update |-> update, pc |-> "read", data |-> MemoryInit]

InitMemory ==
    /\ program = "memory"
    /\ app = reset_state
    /\ gui = GUIState
    /\ loc = LocInit
    /\ tracker = TrackerInit
    /\ camera = NoFace
    /\ frames = 0
    /\ operator = OperatorInit
    /\ hist = HistInit
    /\ classifier = ClassifierIdle
    /\ session = SessionIdle
    /\ disk = DiskIdle
    /\ files = FilesIdle
    /\ calc = CalcIdle
    /\ memory \in Stores
    /\ \E first \in ColorUpdates, second \in SecondUpdates :
          procs = [before |-> memory,
                   callers |-> <<Caller(first), Caller(second)>>]

\* read_memory of a caller
CallerReads ==
    /\ program = "memory"
    /\ \E i \in 1..2 :
          /\ procs.callers[i].pc = "read"
          /\ procs' = [procs EXCEPT !.callers[i].pc = "write",
                                    !.callers[i].data = memory]
    /\ UNCHANGED <<program, app, gui, loc, tracker, memory, camera, frames,
                   operator, hist>>
    /\ UNCHANGED <<classifier, session, disk, files, calc>>

\* the change of the copy and write_memory of a caller
CallerWrites ==
    /\ program = "memory"
    /\ \E i \in 1..2 :
          /\ procs.callers[i].pc = "write"
          /\ memory' = ApplyUpdate(procs.callers[i].update,
                                   procs.callers[i].data)
          /\ procs' = [procs EXCEPT !.callers[i].pc = "done"]
    /\ UNCHANGED <<program, app, gui, loc, tracker, camera, frames, operator, hist>>
    /\ UNCHANGED <<classifier, session, disk, files, calc>>

NextMemory ==
    \/ CallerReads
    \/ CallerWrites

SpecMemory == InitMemory /\ [][NextMemory]_vars

(***************************************************************************)
(* The MemoryShare store used by several processes, each with its own      *)
(* MemoryShare object and so its own lock (memory_sharing.py).  Starting   *)
(* from the file __init__ writes, two processes call the updates and       *)
(* get_buttons_to_click in any order, MaxStoreCalls calls in all.  An      *)
(* update is read_memory(), a change of the copy read, and write_memory()  *)
(* of the copy, with the calls of the other process interleaved.  Another  *)
(* process may remove the file (cleanup), and a write that overlaps        *)
(* another one may leave text json.load rejects: procs.readable is false   *)
(* then, read_memory writes and returns the default data, and              *)
(* write_memory makes the file readable again.  procs.stale tells that the *)
(* last write put back a copy read before another write; procs.clicked is  *)
(* the list the last get_buttons_to_click returned.                        *)
(***************************************************************************)
StoreButtons == {0, 3, 5}

StoreUpdates ==
    [name : {"update_color_flag"}, button_index : StoreButtons, value : BOOLEAN]
    \cup [name : {"toggle_color_flag"}, button_index : StoreButtons, value : {FALSE}]
    \cup SecondUpdates

StoreIdle == [update |-> CHOOSE u \in SecondUpdates : TRUE, pc |-> "idle",
              data |-> MemoryInit]

InitStore ==
    /\ program = "store"
    /\ app = reset_state
    /\ gui = GUIState
    /\ loc = LocInit
    /\ tracker = TrackerInit
    /\ camera = NoFace
    /\ frames = 0
    /\ operator = OperatorInit
    /\ hist = HistInit
    /\ classifier = ClassifierIdle
    /\ session = SessionIdle
    /\ disk = DiskIdle
    /\ files = FilesIdle
    /\ calc = CalcIdle
    /\ memory = MemoryInit
    /\ procs = [callers |-> <<StoreIdle, StoreIdle>>, calls |-> 0,
                readable |-> TRUE, stale |-> FALSE, clicked |-> <<>>]

\* read_memory: the data returned and the file it leaves
read_memory == IF procs.readable THEN memory ELSE MemoryInit

\* a process starts an update: read_memory
StoreUpdateReads ==
    /\ program = "store"
    /\ procs.calls < MaxStoreCalls
    /\ \E i \in 1..2, update \in StoreUpdates :
          /\ procs.callers[i].pc = "idle"
          /\ procs' = [procs EXCEPT !.callers[i] = [update |-> update,
                                                    pc |-> "write",
                                                    data |-> read_memory],
                                    !.calls = @ + 1,
                                    !.readable = TRUE]
    /\ memory' = read_memory
    /\ UNCHANGED <<program, app, gui, loc, tracker, camera, frames, operator, hist>>
    /\ UNCHANGED <<classifier, session, disk, files, calc>>

\* the process changes its copy and ends the update: write_memory
StoreUpdateWrites ==
    /\ program = "store"
    /\ \E i \in 1..2 :
          /\ procs.callers[i].pc = "write"
          /\ memory' = ApplyUpdate(procs.callers[i].update, procs.callers[i].data)
          /\ procs' = [procs EXCEPT !.callers[i].pc = "idle",
                                    !.readable = TRUE,
                                    !.stale = (~procs.readable
                                               \/ procs.callers[i].data # memory)]
    /\ UNCHANGED <<program, app, gui, loc, tracker, camera, frames, operator, hist>>
    /\ UNCHANGED <<classifier, session, disk, files, calc>>

\* get_buttons_to_click of a process that is not in an update
StoreClicks ==
    /\ program = "store"
    /\ procs.calls < MaxStoreCalls
    /\ \E i \in 1..2 : procs.callers[i].pc = "idle"
    /\ procs' = [procs EXCEPT !.clicked = get_buttons_to_click(read_memory),
                              !.calls = @ + 1,
                              !.readable = TRUE]
    /\ memory' = read_memory
    /\ UNCHANGED <<program, app, gui, loc, tracker, camera, frames, operator, hist>>
    /\ UNCHANGED <<classifier, session, disk, files, calc>>

\* the file is removed, or two overlapping writes leave a text that is not
\* JSON
StoreLost ==
    /\ program = "store"
    /\ procs.readable
    /\ procs.calls < MaxStoreCalls
    /\ procs' = [procs EXCEPT !.readable = FALSE]
    /\ UNCHANGED <<program, app, gui, loc, tracker, memory, camera, frames,
                   operator, hist>>
    /\ UNCHANGED <<classifier, session, disk, files, calc>>

NextStore ==
    \/ StoreUpdateReads
    \/ StoreUpdateWrites
    \/ StoreClicks
    \/ StoreLost

SpecStore == InitStore /\ [][NextStore]_vars

(***************************************************************************)
(* Properties                                                              *)
(***************************************************************************)
\* one iteration of the loop of EyeTrackingApp.run
AppStep == program = "app" /\ frames' = frames + 1

\* ... on a frame with a face
FaceStep == AppStep /\ camera'.face

\* ... on a blink frame / an open-eye frame
BlinkStep == FaceStep /\ loc'.is_blinking

OpenStep == FaceStep /\ ~loc'.is_blinking

\* an open-eye frame classified at another position than the open-eye frame
\* before it, no blink frame between the two
MoveStep == OpenStep /\ hist.last_kind = "open" /\ loc'.current_flags # hist.last_open

\* the most recent face frame was a blink frame with a blink frame before it
SecondBlink == hist.last_kind = "blink" /\ hist.pair.valid

NoAngleChange == [dec |-> 0, inc |-> 0]

C4_AngleWithinLimits ==
    \A i \in 1..3 :
        -AngleLimit <= app.angle_positions[i] /\ app.angle_positions[i] <= AngleLimit

\* C5, as the claim states it: from angle 0, after the increase command has
\* been active for n successive face frames on a channel with rate R, the
\* angle is min(90, n * (0.05 + R/300)).
C5_LinearThenClamped ==
    hist.held.n > 0 =>
        app.angle_positions[hist.held.chan] =
            Min(AngleLimit, hist.held.n * (AngleBaseStep + hist.held.rate))

\* C6: a double blink with dwell bottom+right dispatches stop on every screen,
\* stop clears both angle_change_flags, and from a dispatched stop until an
\* angle_inc or angle_dec is dispatched no frame changes an angle position.
C6_StopFreezesAngles ==
    [][AppStep =>
        /\ (camera'.face /\ loc'.dbl = 1 /\ app'.blink_flags = BotRight =>
                loc'.action.type = "stop")
        /\ (camera'.face /\ loc'.action.type = "stop" =>
                app'.angle_change_flags = NoAngleChange)
        /\ (hist'.mode = "stopped" =>
                app'.angle_positions = app.angle_positions)]_vars

\* C6 witness: stop was dispatched on screen 3 after an angle had moved.
C6_Witness ==
    /\ gui.current_gui = 3
    /\ loc.action.type = "stop"
    /\ hist.mode = "stopped"
    /\ \E i \in 1..3 : app.angle_positions[i] # 0

\* the command table of the claim C7
C7_Command(screen, dwell) ==
    IF dwell = BotLeft THEN "switch_gui"
    ELSE IF dwell = BotRight THEN "stop"
    ELSE IF dwell = BotCenter /\ screen = 1 THEN "switch_angle"
    ELSE IF dwell = BotCenter /\ screen = 2 THEN "switch_gui"
    ELSE IF dwell = TopLeft /\ screen = 1 THEN "angle_inc"
    ELSE IF dwell = TopRight /\ screen = 1 THEN "angle_dec"
    ELSE IF dwell = TopLeft /\ screen = 2 THEN "velocity_inc"
    ELSE IF dwell = TopRight /\ screen = 2 THEN "velocity_dec"
    ELSE "none"

C7_Screen(screen, dwell) ==
    IF dwell = BotLeft THEN (IF screen = 1 THEN 2 ELSE 1)
    ELSE IF dwell = BotCenter /\ screen = 2 THEN 3
    ELSE screen

\* C7: with double_blink set, the dispatched command and the screen after it
\* are the claim's function of the screen and the dwell selection.
C7_CommandTable ==
    [][FaceStep /\ loc'.dbl = 1 =>
        /\ loc'.action.type = C7_Command(gui.current_gui, app'.blink_flags)
        /\ gui'.current_gui = C7_Screen(gui.current_gui, app'.blink_flags)
        /\ loc'.action.target =
              IF loc'.action.type = "switch_gui" THEN gui'.current_gui ELSE 0]_vars

\* C7 witness: a double blink with dwell top+left on screen 3 dispatched nothing.
C7_Witness ==
    /\ hist.last_kind = "blink"
    /\ gui.current_gui = 3
    /\ loc.dbl = 1
    /\ app.blink_flags = TopLeft
    /\ loc.action.type = "none"

\* C8: a blink frame sets the dwell selection to the position classified on
\* the most recent open-eye frame (all flags 0 if there was none); an open-eye
\* frame does not change the dwell selection.
C8_DwellIsLastOpenEyePosition ==
    [][/\ (BlinkStep => app'.blink_flags = hist.last_open)
       /\ (OpenStep => app'.blink_flags = app.blink_flags)]_vars

\* C8 witness: a blink frame classified at another position than the dwell
\* selection it captured.
C8_Witness ==
    /\ hist.last_kind = "blink"
    /\ loc.face_detected
    /\ app.blink_flags \in Positions
    /\ loc.current_flags # app.blink_flags

\* C9: a frame without a face leaves the fields of the command engine, the
\* filters among them, the screen and the stored flags of the flag store
\* unchanged.
C9_NoFaceHoldsState ==
    [][frames' = frames + 1 /\ ~camera'.face =>
        app' = app /\ gui' = gui /\ memory' = memory]_vars

\* C9 witness: a frame without a face right after a blink frame.
C9_Witness ==
    /\ program = "app"
    /\ frames > 1
    /\ ~camera.face
    /\ ~loc.face_detected
    /\ app.anti_millis_blink = 1
    /\ app.side_gaze_filter.count > 0

C12_Top(c) == c.tb_ratio > c.profile.tb

C12_RightThreshold(c) == IF C12_Top(c) THEN c.profile.ru ELSE c.profile.rd

C12_LeftThreshold(c) == IF C12_Top(c) THEN c.profile.lu ELSE c.profile.ld

C12_Horizontal(c) ==
    IF c.side_ratio < C12_RightThreshold(c) THEN "right"
    ELSE IF c.side_ratio > C12_LeftThreshold(c) THEN "left"
    ELSE "center"

C12_Flags(c) ==
    Flags(IF C12_Horizontal(c) = "center" THEN 1 ELSE 0,
          IF C12_Horizontal(c) = "right" THEN 1 ELSE 0,
          IF C12_Horizontal(c) = "left" THEN 1 ELSE 0,
          IF C12_Top(c) THEN 1 ELSE 0,
          IF C12_Top(c) THEN 0 ELSE 1)

\* the number of TRUE among the elements of a set of indices of a tuple
CountTrue(t, idx) == Cardinality({i \in idx : t[i]})

\* C11: for every pair of ratios and every profile each classifier sets
\* exactly one of top, bot and exactly one of left, center, right.
C11_ExactlyOnePerAxis ==
    classifier.called =>
        /\ classifier.flags.top + classifier.flags.bot = 1
        /\ classifier.flags.left + classifier.flags.center
              + classifier.flags.right = 1
        /\ CountTrue(classifier.position, {4, 5}) = 1
        /\ CountTrue(classifier.position, {1, 2, 3}) = 1

\* C11 witness: a side ratio below the right and above the left threshold.
C11_Witness ==
    /\ classifier.called
    /\ classifier.side_ratio < C12_RightThreshold(classifier)
    /\ classifier.side_ratio > C12_LeftThreshold(classifier)
    /\ classifier.flags.right = 1
    /\ classifier.position[2]

\* C12: both classifiers compute the function of the claim (top iff tb_ratio >
\* tb; right below the right threshold of the half, else left above the left
\* threshold, else center); tb_ratio 2.0, tb 1.0, side_ratio 0.5, ru 0.6
\* gives exactly top and right.
C12_SameClassifier ==
    classifier.called =>
        /\ classifier.flags = C12_Flags(classifier)
        /\ classifier.position =
              <<classifier.flags.center = 1, classifier.flags.right = 1,
                classifier.flags.left = 1, classifier.flags.top = 1,
                classifier.flags.bot = 1>>
        /\ (classifier.tb_ratio = 20 /\ classifier.profile.tb = 10
              /\ classifier.side_ratio = 5 /\ classifier.profile.ru = 6 =>
                classifier.flags = TopRight)

\* C12 witness: the scenario of the claim.
C12_Witness ==
    /\ classifier.called
    /\ classifier.tb_ratio = 20 /\ classifier.profile.tb = 10
    /\ classifier.side_ratio = 5 /\ classifier.profile.ru = 6
    /\ classifier.position = <<FALSE, TRUE, FALSE, TRUE, FALSE>>

\* the side ratio equals a corner threshold of the chosen vertical half
C13_OnThreshold ==
    /\ classifier.called
    /\ \/ classifier.side_ratio = C12_RightThreshold(classifier)
       \/ classifier.side_ratio = C12_LeftThreshold(classifier)

\* C13, as the claim states it: for every profile a side ratio equal to a
\* corner threshold of the chosen half is classified center.
C13_Original ==
    C13_OnThreshold =>
        classifier.flags.center = 1 /\ classifier.position[1]

\* C13 (amended): a side ratio equal to a corner threshold of the chosen half
\* is classified center for every profile whose right threshold of that half
\* does not exceed the left one; when the right threshold exceeds the left
\* one, a side ratio equal to the right threshold is classified left and one
\* equal to the left threshold is classified right.
C13_BoundaryIsCenter ==
    C13_OnThreshold =>
        IF C12_RightThreshold(classifier) <= C12_LeftThreshold(classifier)
        THEN classifier.flags.center = 1 /\ classifier.position[1]
        ELSE IF classifier.side_ratio = C12_RightThreshold(classifier)
        THEN classifier.flags.left = 1 /\ classifier.position[3]
        ELSE classifier.flags.right = 1 /\ classifier.position[2]

\* C13 witness: the side ratio equals the right threshold, which is below the
\* left one: center.
C13_Witness ==
    /\ classifier.called
    /\ classifier.side_ratio = C12_RightThreshold(classifier)
    /\ C12_RightThreshold(classifier) < C12_LeftThreshold(classifier)
    /\ classifier.flags.center = 1

\* the running sums and the sample counter of either engine
Sums(s) ==
    IF s.engine = "manager"
    THEN <<s.self.calibration_values.side, s.self.calibration_values.top,
           s.self.calibration_values.mouth>>
    ELSE <<s.self.accumulated_side, s.self.accumulated_top,
           s.self.accumulated_mouth>>

Counter(s) == IF s.engine = "manager" THEN s.self.sample_count ELSE s.self.count

\* a step of a calibration session
SessionStep == program = "calibration" /\ session' # session

\* ... that read a frame from the camera in a capture stage
CaptureFrameStep ==
    /\ SessionStep
    /\ session'.log.step = "frame"
    /\ session'.log.ret
    /\ Stage(session) \in CaptureStages

\* C14, as the claim states it: the stage starts at 0, each step of a session
\* leaves it or increments it by 1, it never passes 11, a session completes
\* only at stage 11 and no iteration starts at stage 11; in both engines.
C14_StageLifecycle ==
    /\ (program = "calibration" => Stage(session) = 0)
    /\ [][SessionStep =>
            /\ Stage(session') \in {Stage(session), Stage(session) + 1}
            /\ Stage(session') <= 11
            /\ (session'.status = "completed" => Stage(session') = 11)
            /\ (Stage(session') = 11 /\ session'.pc = "frame" =>
                    session'.status # "running")]_vars

\* C15, as the claim states it: a frame of a capture stage advances the stage
\* exactly when more than 2.9 seconds have passed since the stage was
\* entered, whatever the number of samples.
C15_DwellAdvance ==
    [][CaptureFrameStep =>
          (Stage(session') = Stage(session) + 1 <=> session'.log.elapsed > 29)]_vars

\* C16, as the claim states it: a frame without a face in a capture stage
\* raises no error and, unless the stage ends with it, leaves the running
\* sums and the sample counter as they are.
C16_NoFaceSkipped ==
    [][CaptureFrameStep /\ session'.log.nfaces = 0 =>
          /\ session'.status # "error"
          /\ (Stage(session') = Stage(session) =>
                 Sums(session') = Sums(session)
                    /\ Counter(session') = Counter(session))]_vars

\* C18, as the claim states it: an iteration of run_calibration in which a
\* waitKey returns 'q' ends the session as cancelled and writes no file,
\* in an instruction stage as in a capture stage.
C18_CancelAborts ==
    [][SessionStep /\ session.engine = "manager"
          /\ "q" \in {session'.log.key_ack, session'.log.key_exit} =>
          session'.status = "cancelled" /\ disk' = disk]_vars

\* the file written by a session reads back without error
Written == load_from_file(disk)

\* every capture stage of the session collected at least one sample
AllSampled == \A k \in CaptureStages : session.log.means[k].set

\* C17: when a session in which every capture stage collected a sample
\* completes, the file written holds, in the fields lu, ru, rd, ld, the mean
\* side ratio of the samples of stage 2, 4, 6, 8, in tb the mean of the four
\* mean vertical ratios of those stages and in mouth the mean mouth ratio of
\* the samples of stage 10.
C17_WrittenProfile ==
    program = "calibration" /\ session.status = "completed" /\ AllSampled =>
        /\ disk.exists
        /\ Written.raised = "none"
        /\ Written.data.lu_side = session.log.means[2].side
        /\ Written.data.ru_side = session.log.means[4].side
        /\ Written.data.rd_side = session.log.means[6].side
        /\ Written.data.ld_side = session.log.means[8].side
        /\ Written.data.tb =
              FracDiv(FracAdd(FracAdd(session.log.means[2].top,
                                      session.log.means[4].top),
                              FracAdd(session.log.means[6].top,
                                      session.log.means[8].top)), 4)
        /\ Written.data.mouth = session.log.means[10].mouth

\* a completed session whose four corner stages have different means
C17_Witness ==
    /\ program = "calibration"
    /\ session.status = "completed"
    /\ AllSampled
    /\ session.log.means[2].side # session.log.means[4].side
    /\ session.log.means[6].side # session.log.means[8].side
    /\ session.log.means[2].side # session.log.means[8].side
    /\ session.log.means[2].top # session.log.means[4].top

\* the six numbers the last load gave, and whether it gave six numbers
Loaded ==
    IF files.by = "FileManager.load_calibration_data"
    THEN [ok |-> \A k \in ProfileKeys : IsNumber(files.texts[k]),
          profile |-> [k \in ProfileKeys |->
                          IF IsNumber(files.texts[k])
                          THEN FloatOf(files.texts[k]) ELSE Zero]]
    ELSE [ok |-> files.raised = "none",
          profile |-> [lu |-> files.data.lu_side, ru |-> files.data.ru_side,
                       ld |-> files.data.ld_side, rd |-> files.data.rd_side,
                       tb |-> files.data.tb, mouth |-> files.data.mouth]]

\* the line has fewer than six fields or one of its six fields is not a number
Malformed(line) ==
    LET values == SplitLine(line, <<>>)
    IN  Len(values) < 6 \/ \E i \in 1..6 : ~IsNumber(values[i])

DefaultProfile == FileProfile(<<4, 5>>, <<6, 5>>, <<4, 5>>, <<6, 5>>, <<1, 1>>, <<1, 2>>)

\* C19, as the claim states it: a load of an absent or malformed file raises
\* nothing and gives the default profile lu = 0.8, ru = 1.2, ld = 0.8,
\* rd = 1.2, tb = 1.0, mouth = 0.5, with either reader.
C19_DefaultOnBadFile ==
    program = "files" /\ files.op = "load"
        /\ (~disk.exists \/ Malformed(disk.line)) =>
        Loaded.ok /\ \A k \in ProfileKeys : Loaded.profile[k] = DefaultProfile[k]

\* C20: a load of the file that follows a save gives the six values saved,
\* each in its field, whoever saved and whoever loads.
C20_RoundTrip ==
    program = "files" /\ files.op = "load" /\ files.saved.set =>
        Loaded.ok /\ \A k \in ProfileKeys : Loaded.profile[k] = files.saved.data[k]

\* a profile of six different values saved by the calibration run and loaded
\* by the application
C20_Witness ==
    /\ program = "files"
    /\ files.op = "load"
    /\ files.by = "FileManager.load_calibration_data"
    /\ files.saved.set
    /\ files.saved.by = "CalibrationManager.save_calibration_data"
    /\ \A j, k \in ProfileKeys : j # k => files.saved.data[j] # files.saved.data[k]

\* C21, as the claim states it: when the read or the write of the calibration
\* file a main program depends on fails (the file is absent, open() fails),
\* the program does not end in an uncaught exception and the tracking
\* session starts with the default profile.
C21_FileFailureIsRecovered ==
    program = "files" /\ files.op = "main" /\ files.run.failed =>
        /\ ~files.run.crashed
        /\ files.run.started
        /\ \A k \in ProfileKeys : files.run.profile[k] = DefaultProfile[k]

\* the last k of the samples fed to the filter
LastSamples(k) ==
    SubSeq(calc.samples, Len(calc.samples) - k + 1, Len(calc.samples))

C23_GazeRatioSentinels ==
    program = "measure" /\ calc.op = "gaze" =>
        /\ ~calc.result.raised
        /\ calc.result.value =
              IF calc.eye.width * calc.eye.height = 0 THEN <<1, 1>>
              ELSE IF calc.eye.right_side_white = 0 THEN <<2, 1>>
              ELSE IF calc.eye.left_side_white = 0 THEN <<1, 2>>
              ELSE Norm(<<calc.eye.left_side_white, calc.eye.right_side_white>>)
        /\ calc.result.value[1] > 0

\* the squared distances from the eye centre to the eyelid midpoints
C24_Up2 ==
    Hypot2(midpoint(calc.landmarks[2], calc.landmarks[3]),
           midpoint(calc.landmarks[1], calc.landmarks[4]))

C24_Bot2 ==
    Hypot2(midpoint(calc.landmarks[1], calc.landmarks[4]),
           midpoint(calc.landmarks[6], calc.landmarks[5]))

\* C24, as the claim states it: every top-bottom ratio computation returns
\* 1.5 when the distance from the eye centre to the lower eyelid midpoint is
\* 0 and the quotient of the upper by the lower distance otherwise.
C24_TbSentinel ==
    program = "measure" /\ calc.op = "tb" =>
        calc.tb_ratio = IF C24_Bot2 = 0 THEN <<9, 4>>
                        ELSE Norm(<<C24_Up2, C24_Bot2>>)

\* the squared lip gap (landmarks 62, 66) and corner distance (60, 64)
C25_Gap2 == Hypot2(calc.mouth[1], calc.mouth[2])

C25_Corners2 == Hypot2(calc.mouth[3], calc.mouth[4])

C26_FirstFaceOnly ==
    [][CaptureFrameStep /\ session'.log.nfaces >= 1
          /\ Stage(session') = Stage(session) =>
          Counter(session') = Counter(session) + 1]_vars

\* C27, as the claim states it: when the two callers have finished, the
\* store holds the effect of both updates, that is what the two updates
\* give when they run one after the other, in one order or the other.
C27_NoLostUpdate ==
    program = "memory"
        /\ procs.callers[1].pc = "done" /\ procs.callers[2].pc = "done" =>
        LET first == procs.callers[1].update
            second == procs.callers[2].update
        IN  memory \in {ApplyUpdate(second, ApplyUpdate(first, procs.before)),
                        ApplyUpdate(first, ApplyUpdate(second, procs.before))}

InstructionStages == {0, 1, 3, 5, 7, 9}

\* the age of the timestamp self.timer
Timer(s) == s.self.timer

\* C28: in stage 0 and in the odd stages the running sums and the sample
\* counter are 0 and the stage changes only in a step that read ESC as the
\* acknowledgement key (the dwell timer does not end these stages); an ESC
\* read in a capture stage does not change the stage: in CalibrationSystem
\* handle_keypress leaves it, in CalibrationManager the stage stays unless
\* the dwell time has elapsed.
C28_InstructionStages ==
    /\ [](program = "calibration" /\ Stage(session) \in InstructionStages =>
             Sums(session) = <<0, 0, 0>> /\ Counter(session) = 0)
    /\ [][SessionStep /\ Stage(session) \in InstructionStages
             /\ Stage(session') # Stage(session) =>
             session'.log.key_ack = "esc"]_vars
    /\ [][(/\ SessionStep
            /\ Stage(session) \in CaptureStages
            /\ \/ /\ session.engine = "system"
                  /\ session'.log.step = "key"
                  /\ session'.log.key_ack = "esc"
               \/ /\ session.engine = "manager"
                  /\ session'.log.key_exit = "esc"
                  /\ session'.log.elapsed <= 29)
             => Stage(session') = Stage(session)]_vars

\* CalibrationSystem in capture stage 4, entered from the instruction stage
\* 3 after a stage 2 that collected samples: samples are collected and an
\* ESC has just been read, which left the stage
C28_Witness ==
    /\ program = "calibration"
    /\ session.engine = "system"
    /\ Stage(session) = 4
    /\ session.log.means[2].set
    /\ Counter(session) > 0
    /\ session.log.step = "key"
    /\ session.log.key_ack = "esc"

\* C29, as the claim states it: every step that advances the stage leaves
\* the three running sums and the sample counter at 0 and the timestamp at
\* the current time, in both engines.
C29_Original ==
    [][SessionStep /\ Stage(session') = Stage(session) + 1 =>
          /\ Sums(session') = <<0, 0, 0>>
          /\ Counter(session') = 0
          /\ Timer(session') = 0]_vars

\* C29, amended: every step that advances the stage leaves the three running
\* sums and the sample counter at 0; it leaves the timestamp at the current
\* time when the acknowledgement key made the advance and, in
\* CalibrationManager, also when the dwell timer made it; an advance by the
\* dwell timer in CalibrationSystem leaves the timestamp of the stage left.
C29_AdvanceResets ==
    [][SessionStep /\ Stage(session') = Stage(session) + 1 =>
          /\ Sums(session') = <<0, 0, 0>>
          /\ Counter(session') = 0
          /\ (session.engine = "manager" \/ session'.log.step = "key" =>
                 Timer(session') = 0)
          /\ (session.engine = "system" /\ session'.log.step = "frame" =>
                 Timer(session') = session'.log.elapsed
                    /\ Timer(session') > CALIBRATION_DURATION)]_vars

\* CalibrationSystem has just left a capture stage, that had samples, by
\* the dwell timer
C29_Witness ==
    /\ program = "calibration"
    /\ session.engine = "system"
    /\ session.log.step = "frame"
    /\ Stage(session) = 5
    /\ session.log.means[4].set
    /\ Counter(session) = 0
    /\ Timer(session) > CALIBRATION_DURATION

\* the latest iteration of EyeTrackingApp.run dispatched a command
Dispatched ==
    program = "app" /\ loc.face_detected /\ loc.action.type # "none"

\* C30, as the claim states it: a command is dispatched on a frame only if
\* the double blink is set on that frame, the held dwell position is not
\* top + center and the position classified on that frame is not top +
\* center.
C30_Original ==
    Dispatched =>
        /\ loc.dbl = 1
        /\ app.blink_flags # TopCenter
        /\ loc.current_flags # TopCenter

\* the velocity percentages 0, 10, ..., 100
VelocityLevels == {VelocityStep * k : k \in 0..(VelocityMax \div VelocityStep)}

\* a frame of EyeTrackingApp.run dispatched the velocity command `type`
VelocityCommand(type) == FaceStep /\ loc'.action.type = type

\* C31: every channel's velocity is one of 0, 10, ..., 100 in every state;
\* a velocity_inc dispatched at 100 and a velocity_dec dispatched at 0
\* leave the velocity as it is; every dispatched velocity command changes
\* the velocity of the current channel by at most 10 and the velocity of
\* no other channel.
C31_VelocityRange ==
    /\ [](\A i \in 1..3 : app.angle_velocities[i] \in VelocityLevels)
    /\ [][(/\ VelocityCommand("velocity_inc")
           /\ app.angle_velocities[app.current_angle] = VelocityMax)
          => app'.angle_velocities = app.angle_velocities]_vars
    /\ [][(/\ VelocityCommand("velocity_dec")
           /\ app.angle_velocities[app.current_angle] = 0)
          => app'.angle_velocities = app.angle_velocities]_vars
    /\ [][(VelocityCommand("velocity_inc") \/ VelocityCommand("velocity_dec"))
          => \A i \in 1..3 :
                LET d == app'.angle_velocities[i] - app.angle_velocities[i]
                IN IF i = app.current_angle
                   THEN -VelocityStep <= d /\ d <= VelocityStep
                   ELSE d = 0]_vars

\* a velocity_inc dispatched at 100: the eleventh gesture in a row is a
\* velocity_inc and leaves the first channel at 100, which takes the nine
\* gestures before it to raise from 10 once screen 2 is open
C31_Witness ==
    /\ program = "app"
    /\ operator.gestures = 11
    /\ loc.face_detected
    /\ loc.action.type = "velocity_inc"
    /\ app.current_angle = 1
    /\ app.angle_velocities = <<VelocityMax, VelocityInit, VelocityInit>>

\* the color flags that are true in the store
TrueFlags(data) == {i \in 1..6 : data.color_flags[i]}

\* C32: in every state of the flag store reached from the all-false store
\* by the updates, toggles and reads of the processes, interleaved in any
\* way, at most one color flag is true; get_buttons_to_click returns at
\* most one index, and none when second_flag is false.
C32_AtMostOneColorFlag ==
    program = "store" =>
        /\ Cardinality(TrueFlags(memory)) <= 1
        /\ \A i \in 1..2 : Cardinality(TrueFlags(procs.callers[i].data)) <= 1
        /\ Len(get_buttons_to_click(memory)) <= 1
        /\ (~memory.second_flag => get_buttons_to_click(memory) = <<>>)
        /\ Len(procs.clicked) <= 1

\* a process has written back a copy it read before the other process
\* wrote, a color flag is true and get_buttons_to_click returned its index
C32_Witness ==
    /\ program = "store"
    /\ procs.stale
    /\ procs.readable
    /\ TrueFlags(memory) # {}
    /\ Len(procs.clicked) = 1
    /\ procs.clicked[1] + 1 \in TrueFlags(memory)

\* the button index (from 0) the claim gives a gaze position, -1 for top +
\* center
C33_Button(results) ==
    CASE results.top_flag /\ results.left_flag -> 0
      [] results.top_flag /\ results.right_flag -> 2
      [] results.bot_flag /\ results.left_flag -> 3
      [] results.bot_flag /\ results.center_flag -> 4
      [] results.bot_flag /\ results.right_flag -> 5
      [] OTHER -> -1

\* C33: after an iteration of EyeTrackingSystem.run on a frame with a face
\* the store holds the color flag of the gazed button and no other (none
\* for top + center), and second_flag is mouth_open, whatever the store
\* held before the iteration.
C33_StoreFollowsGaze ==
    [][program = "tracker" /\ frames' = frames + 1
          /\ tracker'.results.face_detected =>
          /\ \A i \in 0..5 :
                memory'.color_flags[i + 1] = (i = C33_Button(tracker'.results))
          /\ memory'.second_flag = tracker'.results.mouth_open]_vars

\* the third frame in a row is classified top + center with the mouth
\* closed and leaves the store all false
C33_Witness ==
    /\ program = "tracker"
    /\ frames = 3
    /\ tracker.results.face_detected
    /\ tracker.results.top_flag /\ tracker.results.center_flag
    /\ ~tracker.results.mouth_open
    /\ memory = MemoryInit

\* C34, as the claim states it: a calibration file exists only when the
\* session has reached stage 11 and completed; a session that ended on a
\* failed frame capture, a cancel or an error has written no file; in both
\* engines.
C34_FileOnlyAfterTerminal ==
    program = "calibration" /\ disk.exists =>
        Stage(session) >= 11 /\ session.status = "completed"

\* a frame with a face on which a command is dispatched
DispatchStep == FaceStep /\ loc'.action.type # "none"

\* C35, as the claim states it: once a command that resets the interaction
\* state has been dispatched, a frame dispatches a command only if at least
\* two blink frames directly preceded by an open-eye frame have been
\* processed since, the frame itself included.
C35_TwoOnsetsAfterReset ==
    [][DispatchStep /\ hist.was_reset =>
          hist.onsets + (IF loc'.is_blinking /\ hist.last_kind = "open"
                         THEN 1 ELSE 0) >= 2]_vars

\* C36, as the claim states it: the double-blink flag is set after a blink
\* frame only if an earlier blink frame captured the same dwell position
\* and no command has reset the interaction state since that earlier frame;
\* so it is not set after the first blink frame of the run.
C36_DoubleBlinkNeedsEarlierBlink ==
    program = "app" /\ hist.last_kind = "blink" /\ loc.dbl = 1 =>
        hist.pair.valid /\ hist.pair.same /\ ~hist.pair.reset

\* the right threshold of the half of the classified ratios exceeds the left
\* threshold of that half
C37_RightAboveLeft(c) ==
    IF c.tb_ratio > c.profile.tb THEN c.profile.ru > c.profile.lu
    ELSE c.profile.rd > c.profile.ld

\* C37: with a profile whose right threshold exceeds the left threshold of
\* a vertical half, neither classifier returns center for a ratio pair of
\* that half: it returns right or left, one of the two.
C37_NoCenterWhenRightAboveLeft ==
    program = "classifier" /\ classifier.called /\ C37_RightAboveLeft(classifier) =>
        /\ classifier.flags.center = 0
        /\ classifier.flags.right + classifier.flags.left = 1
        /\ ~classifier.position[1]
        /\ classifier.position[2] # classifier.position[3]

\* the thresholds of the default profile (lu = ld = 0.8, ru = rd = 1.2) and
\* a side ratio between them, 1.0, in the top half: classified right
C37_Witness ==
    /\ program = "classifier"
    /\ classifier.called
    /\ classifier.profile.lu = 8 /\ classifier.profile.ru = 12
    /\ classifier.profile.ld = 8 /\ classifier.profile.rd = 12
    /\ classifier.side_ratio = 10
    /\ classifier.tb_ratio > classifier.profile.tb
    /\ classifier.flags = TopRight

\* C38: in every state of the command engine the increase flag and the
\* decrease flag are not both set, the current channel is 1, 2 or 3 and the
\* current screen is 1, 2 or 3; a dispatched switch_angle takes the channel
\* from 1 to 2, from 2 to 3 and from 3 to 1; screen 3 is entered from
\* screen 2 only.
C38_EngineStateRange ==
    /\ [](/\ ~(app.angle_change_flags.inc = 1 /\ app.angle_change_flags.dec = 1)
          /\ app.current_angle \in {1, 2, 3}
          /\ gui.current_gui \in {1, 2, 3})
    /\ [][(FaceStep /\ loc'.action.type = "switch_angle")
          => app'.current_angle = (IF app.current_angle = 1 THEN 2
                                   ELSE IF app.current_angle = 2 THEN 3
                                   ELSE 1)]_vars
    /\ [][(gui'.current_gui = 3 /\ gui.current_gui # 3)
          => gui.current_gui = 2]_vars

\* the third switch_angle in a row brings the channel back to 1
C38_Witness ==
    /\ program = "app"
    /\ operator.gestures = 3
    /\ loc.face_detected
    /\ loc.action.type = "switch_angle"
    /\ app.current_angle = 1
    /\ gui.current_gui = 1

\* two fractions of the same value
C39_Same(a, b) == a[1] * b[2] = b[1] * a[2]

\* C39: fed the same samples, the inline filter of the tracker and a
\* MovingAverage of the same window W return the same value for every
\* sample from the (W+1)-th on, the mean of the last W samples, on both
\* channels of the tracker; for each of the first W samples the inline
\* filter returns the sample itself.
C39_InlineFilterAgrees ==
    program = "inline" /\ calc.samples # <<>> /\ camera.face =>
        LET n == Len(calc.samples)
            W == MOVING_AVERAGE_WINDOW
            raw == <<calc.samples[n], 1>>
            mean == <<SeqSum(LastSamples(W)), W>>
        IN  /\ tracker.results.face_detected
            /\ n > W => /\ C39_Same(tracker.results.side_ratio, calc.out)
                        /\ C39_Same(tracker.results.tb_ratio, calc.out)
                        /\ C39_Same(tracker.results.side_ratio, mean)
            /\ n <= W => /\ tracker.results.side_ratio = raw
                         /\ tracker.results.tb_ratio = raw

\* the tenth sample, 1.5 after nine samples of 0.5: both filters return
\* 5.5 / 9, not the sample
C39_Witness ==
    /\ program = "inline"
    /\ camera.face
    /\ calc.samples = <<5, 5, 5, 5, 5, 5, 5, 5, 5, 15>>
    /\ tracker.results.side_ratio = <<55, 9>>
    /\ calc.out = <<55, 9>>

\* every frame so far arrived
C40_FramesArrive == session.log.ret

\* no key read so far was 'q'
C40_NoCancel == session.log.key_ack # "q" /\ session.log.key_exit # "q"

\* every capture stage left has a sample, and so has the stage under way
\* once its dwell is over
C40_EverySampled ==
    \A k \in CaptureStages :
        /\ Stage(session) > k => session.log.means[k].set
        /\ Stage(session) = k /\ session.log.since_entry > CALIBRATION_DURATION
               => session.log.sums.n > 0

\* C40: a calibration session in which every frame arrives, every capture
\* stage samples a face, no 'q' is read and ESC is read again and again in
\* the instruction stages reaches stage 11 and then stays completed with the
\* profile written once; no session writes the profile twice.
C40_SessionTerminates ==
    /\ [](program = "calibration" => session.log.writes <= 1)
    /\ [](C40_FramesArrive /\ C40_NoCancel /\ C40_EverySampled)
           => /\ <>(Stage(session) = 11)
              /\ <>[](/\ session.status = "completed"
                      /\ session.log.writes = 1
                      /\ disk.exists)

\* a session of run_calibration that sampled a face in every capture stage
\* is completed at stage 11 with the profile written once
C40_Witness ==
    /\ program = "calibration"
    /\ session.engine = "manager"
    /\ session.status = "completed"
    /\ Stage(session) = 11
    /\ AllSampled
    /\ session.log.writes = 1
    /\ disk.exists

====
